---- MODULE Spec2Model ----
(***************************************************************************)
(* A model of parts of dreye: the batched least-squares engine             *)
(* (api/optimize/lsq_nonlinear.py), the intensity estimators               *)
(* (estimators/intensity_models.py) and the temporal step stimuli          *)
(* (stimuli/temporal/step.py).                                             *)
(*                                                                         *)
(* Each component has its own variables and its own specification; a       *)
(* specification holds the variables of the other components at their idle *)
(* value.                                                                  *)
(***************************************************************************)
EXTENDS Integers, Sequences, FiniteSets, TLC

(***************************************************************************)
(* Bounds of the model.                                                    *)
(***************************************************************************)
MaxSamples == 3
MaxBatchSize == 3
\* intensity estimators: columns of X, largest entry of X, largest background
MaxCols == 2
MaxRel == 2
MaxBg == 2
\* step stimuli: rows of the event table before it is iterated, iterations,
\* ticks per frame
MaxBase == 4
MaxIter == 3
MaxPeriod == 2
\* random switch stimuli: total_dur, in ticks
MaxTotalDur == 4
\* metrics: light sources of the container
MaxSources == 3
\* mixins: channels of a value mapping
MaxChannels == 2
\* DependentExcitationFit: capture_border_
CaptureBorder == 1
\* measurement_utils: spectra of a call
MaxLeds == 2
\* get_label_formatted: characters of a label
MaxLabelLen == 4

VARIABLES
    \* ---- lsq_nonlinear: arguments (fixed during a call) ----
    n_samples,      \* B.shape[0]
    batch_size,     \* batch_size
    nonlin,         \* TRUE iff a nonlinearity is given
    n_jobs,         \* "None" or a job count (as a string)
    error,          \* the error policy
    in_gamut,       \* sample -> does its linear solution reproduce its target
    \* ---- lsq_nonlinear: locals ----
    lsq_pc,         \* "idle" | "start" | "loop" | "done"
    X,              \* the result array, <<>> before it is allocated
    idx,            \* batch index of the loop
    count_failure,  \* count_failure
    \* ---- lsq_nonlinear: what the call did (history) ----
    nl_calls,       \* number of optimize.least_squares calls
    writes,         \* sample -> number of assignments to its row of X
    batch_log,      \* per batch: branch taken, status of the last solve
    outcome,        \* "none" | "returned" | the exception raised
    warnings,       \* the warnings emitted (each the count in its message)
    raised_count,   \* the count in the message of the RuntimeError, or -1
    \* ---- _to_absolute_intensity / _to_relative_intensity applied in turn ----
    rel_pc,         \* "idle" | "in" | "abs" | "rel" | "raised"
    rel_rtype,      \* self.rtype
    rel_bg,         \* self.bg_ints_
    rel_X,          \* the argument X (one row)
    rel_abs,        \* _to_absolute_intensity(X)
    rel_back,       \* _to_relative_intensity(_to_absolute_intensity(X))
    rel_error,      \* "none" or the exception raised
    \* ---- IntensityFit / RelativeIntensityFit: constructor arguments ----
    est_kind,       \* the class of the estimator
    measured_spectra, \* 0 for None, else the number of spectra of the container
    rtype,          \* rtype
    bg_ints,        \* bg_ints: <<>> for None, else the vector
    \* ---- the estimator's fitted attributes ----
    attrs,          \* the names of the attributes that are set
    measured_spectra_, \* len(self.measured_spectra_), 0 when unset
    n_features_,    \* self.n_features_, 0 when unset
    bg_ints_,       \* self.bg_ints_, <<>> when unset
    \* ---- what the calls did (history) ----
    fit_returned,   \* TRUE iff some fit call returned
    last_call,      \* the last call: op, outcome, passed the fitted check
    \* ---- StepStimulus: attributes set by __init__ ----
    values,         \* self.values: the table of value rows
    dur_iterable,   \* self.dur_iterable: the (duration, pause) pairs
    repetitions,    \* self.repetitions
    iterations,     \* self.iterations
    randomize,      \* self.randomize
    seed,           \* self.seed, 0 for None
    period,         \* 1 / self.rate, in ticks
    start_delay,    \* self.start_delay, in ticks
    end_dur,        \* self.end_dur, in ticks
    \* ---- StepStimulus: create() ----
    step_pc,        \* "idle" | "new" | "events" | "signal" | "raised"
    events,         \* self._events (its delays are corrected in place)
    signal,         \* self._signal, <<>> while unset
    step_error,     \* "none" or the exception create() raised
    created_events, \* history: the table as _create_events returned it
    \* ---- numpy's global random state (np.random) ----
    np_random,      \* the state of the global generator
    \* ---- RandomSwitchStimulus: attributes set by __init__ ----
    rs_values,      \* self.values: channel -> its list of values
    rs_total_dur,   \* self.total_dur, in ticks
    rs_clip_dur,    \* self.clip_dur, in ticks
    rs_iterations,  \* self.iterations
    rs_seed,        \* self.seed, 0 for None
    rs_period,      \* 1 / self.rate, in ticks
    rs_start_delay, \* self.start_delay, in ticks
    rs_end_dur,     \* self.end_dur, in ticks
    \* ---- RandomSwitchStimulus: create() ----
    rs_pc,          \* "idle" | "new" | "events" | "loop" | "signal" | "raised"
    rs_events,      \* self._events (its delays are corrected in place)
    rs_metadata,    \* self._metadata: channel -> its (delay, value) pairs
    rs_signal,      \* the signal array of _create_signal, <<>> while unset
    rs_index,       \* the row _create_signal's loop is at
    rs_error,       \* "none" or the exception create() raised
    rs_created,     \* history: the table as _create_events returned it
    \* ---- two create() runs of a seeded stimulus ----
    seed_options,   \* the options of the stimulus (class, values, ...)
    seed_seed,      \* the seed option, 0 for None
    seed_before,    \* history: the generator's state before each run
    seed_tables,    \* the event tables the runs produced, in order
    \* ---- MeasuredSpectraMetrics: constructor arguments ----
    met_n_sources,  \* len(measured_spectra)
    met_combos,     \* combos: a number, a list of numbers or a matrix
    \* ---- MeasuredSpectraMetrics: attributes and calls ----
    met_pc,         \* "idle" | "new" | "ready" | "raised"
    met_source_idcs,\* self.source_idcs: its dtype and its rows
    met_error,      \* "none" or the exception __init__ raised
    met_last,       \* history: the last call on the object and its result
    \* ---- SetStepMixin / SetRandomStepMixin: _set_values and its arguments ----
    mix_class,      \* the mixin whose _set_values is called
    mix_values,     \* values: channel -> its list of candidate values
    mix_baseline,   \* baseline_values: a number or a list
    mix_separate,   \* separate_channels (SetStepMixin)
    mix_probs,      \* values_probs: channel -> its weights, <<>> for none
    mix_ragged,     \* what np.array makes of lists of different lengths
    mix_pc,         \* "idle" | "call" | "done"
    mix_result,     \* what _set_values returned or raised
    \* ---- DependentExcitationFit: options, _fit and _fit_sample ----
    dep_n_sources,            \* len(self.measured_spectra_)
    dep_independent_layers,   \* independent_layers: None or a number
    dep_layer_assignments,    \* layer_assignments: None or a list of lists
    dep_unidirectional,       \* self._unidirectional_
    dep_fit_only_uniques,     \* self.fit_only_uniques
    dep_capture_X,            \* self.capture_X_
    dep_fit_sample,           \* which _fit_sample is called
    dep_intensity_bounds,     \* self.intensity_bounds_
    dep_pc,                   \* "idle" | "fit" | "layers" | "sampled" | "done"
    dep_layers,               \* _independent_layers_ and _layer_assignments_
    dep_bounds,               \* bounds, as _fit_sample uses them
    dep_local,                \* the arrays _fit holds after _fit_sample
    dep_fitted,               \* fitted_intensities_, layer_intensities_, pixel_strength_
    \* ---- measurement_utils: one call and what it produced ----
    meas_call,                \* the function called and its arguments
    meas_pc,                  \* "idle" | "call" | "done"
    meas_result,              \* bounds handed to MeasuredSpectrum, or output labels
    \* ---- plotting: one call and what it produced ----
    plot_call,                \* the function called and its arguments
    plot_pc,                  \* "idle" | "call" | "done"
    plot_result               \* the formatted label, or the colours of the lines

lsqVars == <<n_samples, batch_size, nonlin, n_jobs, error, in_gamut, lsq_pc,
             X, idx, count_failure, nl_calls, writes, batch_log, outcome,
             warnings, raised_count>>

relVars == <<rel_pc, rel_rtype, rel_bg, rel_X, rel_abs, rel_back, rel_error>>

estVars == <<est_kind, measured_spectra, rtype, bg_ints, attrs,
             measured_spectra_, n_features_, bg_ints_, fit_returned, last_call>>

stepVars == <<values, dur_iterable, repetitions, iterations, randomize, seed,
              period, start_delay, end_dur, step_pc, events, signal,
              step_error, created_events>>

rngVars == <<np_random>>

rsVars == <<rs_values, rs_total_dur, rs_clip_dur, rs_iterations, rs_seed,
            rs_period, rs_start_delay, rs_end_dur, rs_pc, rs_events,
            rs_metadata, rs_signal, rs_index, rs_error, rs_created>>

seedVars == <<seed_options, seed_seed, seed_before, seed_tables>>

metVars == <<met_n_sources, met_combos, met_pc, met_source_idcs, met_error,
             met_last>>

mixVars == <<mix_class, mix_values, mix_baseline, mix_separate, mix_probs,
             mix_ragged, mix_pc, mix_result>>

depVars == <<dep_n_sources, dep_independent_layers, dep_layer_assignments,
             dep_unidirectional, dep_fit_only_uniques, dep_capture_X,
             dep_fit_sample, dep_intensity_bounds, dep_pc, dep_layers,
             dep_bounds, dep_local, dep_fitted>>

measVars == <<meas_call, meas_pc, meas_result>>

plotVars == <<plot_call, plot_pc, plot_result>>

vars ==
    <<lsqVars, relVars, estVars, stepVars, rngVars, rsVars, seedVars,
    metVars, mixVars, depVars, measVars, plotVars>>

\* the variables of the other components, which a component leaves alone
exceptLsq ==
    <<relVars, estVars, stepVars, rngVars, rsVars, seedVars, metVars,
    mixVars, depVars, measVars, plotVars>>
exceptRel ==
    <<lsqVars, estVars, stepVars, rngVars, rsVars, seedVars, metVars,
    mixVars, depVars, measVars, plotVars>>
exceptEst ==
    <<lsqVars, relVars, stepVars, rngVars, rsVars, seedVars, metVars,
    mixVars, depVars, measVars, plotVars>>
exceptStep ==
    <<lsqVars, relVars, estVars, rngVars, rsVars, seedVars, metVars, mixVars,
    depVars, measVars, plotVars>>
exceptRs ==
    <<lsqVars, relVars, estVars, stepVars, seedVars, metVars, mixVars,
    depVars, measVars, plotVars>>
exceptSeed ==
    <<lsqVars, relVars, estVars, stepVars, rsVars, metVars, mixVars, depVars,
    measVars, plotVars>>
exceptMet ==
    <<lsqVars, relVars, estVars, stepVars, rngVars, rsVars, seedVars,
    mixVars, depVars, measVars, plotVars>>
exceptMix ==
    <<lsqVars, relVars, estVars, stepVars, rngVars, rsVars, seedVars,
    metVars, depVars, measVars, plotVars>>
exceptDep ==
    <<lsqVars, relVars, estVars, stepVars, rngVars, rsVars, seedVars,
    metVars, mixVars, measVars, plotVars>>
exceptMeas ==
    <<lsqVars, relVars, estVars, stepVars, rngVars, rsVars, seedVars,
    metVars, mixVars, depVars, plotVars>>
exceptPlot ==
    <<lsqVars, relVars, estVars, stepVars, rngVars, rsVars, seedVars,
    metVars, mixVars, depVars, measVars>>

(***************************************************************************)
(* Small helpers.                                                          *)
(***************************************************************************)
Min(a, b) == IF a < b THEN a ELSE b
Max(a, b) == IF a > b THEN a ELSE b
CeilDiv(a, b) == (a + b - 1) \div b
Range(s) == {s[i] : i \in DOMAIN s}

(***************************************************************************)
(*                      lsq_nonlinear                                      *)
(*                                                                         *)
(* The numerical solvers are scipy's; the model keeps, for every row of X, *)
(* where its value came from: the initial zero, the bounded linear         *)
(* solution of a sample, or the bounded nonlinear refinement of a problem  *)
(* made of a set of samples.                                               *)
(***************************************************************************)
Samples == 0 .. (n_samples - 1)

\* np.zeros row
ZeroRow == [kind |-> "zero", sample |-> -1, problem |-> {}]
\* row of optimize.lsq_linear's result.x for the sample
LinRow(s) == [kind |-> "lin", sample |-> s, problem |-> {}]
\* row of optimize.least_squares' result.x for the sample, in a refinement
\* problem over the samples `problem`, started from their linear solutions
NlRow(s, problem) == [kind |-> "nl", sample |-> s, problem |-> problem]

\* status codes of scipy's solvers: <= 0 is a failure
StatusValues == {-1, 0, 1}
ErrorValues == {"raise", "warn", "ignore", "strict"}
NJobsValues == {"None", "2"}

\* batched_iteration: the number of batches it yields
NBatches == CeilDiv(n_samples, batch_size)
\* batched_iteration: the samples of batch i, in order
BatchedIteration(i) ==
    [j \in 1 .. (Min((i + 1) * batch_size, n_samples) - i * batch_size)
        |-> i * batch_size + j - 1]

\* a faulty variant of IdxSlice: the slice stops one row early
IdxSliceShort(i) ==
    [j \in 1 .. (Max(Min((i + 1) * batch_size - 1, n_samples), i * batch_size)
                  - i * batch_size) |-> i * batch_size + j - 1]
\* idx_slice = slice(idx * batch_size, (idx+1) * batch_size), applied to X:
\* the rows of X it selects, in order (a slice clamps to the array)
IdxSlice(i) ==
    [j \in 1 .. (Max(Min((i + 1) * batch_size, n_samples), i * batch_size)
                  - i * batch_size) |-> i * batch_size + j - 1]

\* x0 = result.x.reshape(-1, A.shape[-1]): one row per sample of the batch
LinearX0(batch) == [j \in DOMAIN batch |-> LinRow(batch[j])]

\* in_gamut = np.isclose(res, 0).all(axis=-1), with
\* res = nonlin(x0 @ A.T + baseline) - E[idx_slice]: row j compares the linear
\* solution of batch[j] with the target of row slice[j] of E
InGamutMask(batch, slice) ==
    [j \in DOMAIN batch |->
        j \in DOMAIN slice /\ batch[j] = slice[j] /\ in_gamut[slice[j]]]

\* Boolean-mask selection a[mask]
RECURSIVE SelectMask(_, _)
SelectMask(a, mask) ==
    IF a = <<>> THEN <<>>
    ELSE LET rest == SelectMask(Tail(a), Tail(mask))
         IN  IF Head(mask) THEN <<Head(a)>> \o rest ELSE rest

\* numpy assignment target[...] = rows, the target being the rows `where` of
\* Xc: row for row when the shapes agree, broadcast when `rows` has one row,
\* a ValueError otherwise
AssignRows(Xc, where, rows) ==
    IF Len(rows) = Len(where)
    THEN [ok |-> TRUE,
          X |-> [s \in DOMAIN Xc |->
                   IF \E j \in DOMAIN where : where[j] = s
                   THEN rows[CHOOSE j \in DOMAIN where : where[j] = s]
                   ELSE Xc[s]]]
    ELSE IF Len(rows) = 1
    THEN [ok |-> TRUE,
          X |-> [s \in DOMAIN Xc |->
                   IF s \in Range(where) THEN rows[1] ELSE Xc[s]]]
    ELSE [ok |-> FALSE, X |-> Xc]

\* the write counts after an assignment to the rows `where`
CountWrites(w, where) ==
    [s \in DOMAIN w |-> IF s \in Range(where) THEN w[s] + 1 ELSE w[s]]

Not(mask) == [j \in DOMAIN mask |-> ~mask[j]]

\* X[idx_slice] = result.x.reshape(-1, A.shape[-1])   (nonlin is None)
XAfterLinear(Xc, i) ==
    AssignRows(Xc, IdxSlice(i), LinearX0(BatchedIteration(i)))

\* a faulty variant of XAfterAllInGamut: x0 is not stored
XAfterAllInGamutSkip(Xc, i) == [ok |-> TRUE, X |-> Xc]
\* X[idx_slice] = x0   (np.all(in_gamut))
XAfterAllInGamut(Xc, i) ==
    AssignRows(Xc, IdxSlice(i), LinearX0(BatchedIteration(i)))

\* ~np.any(in_gamut): result = optimize.least_squares(...) and nothing else;
\* X is not assigned
XAfterNoneInGamut(Xc, i) == [ok |-> TRUE, X |-> Xc]

\* a faulty variant of Rebatch: the mask is not negated
RebatchInGamut(batch, mask) ==
    LET out == SelectMask(batch, mask)
    IN  [samples |-> out, n_blocks |-> Len(out)]
\* the refinement problem of a mixed batch: the out-of-gamut samples, with
\* the unbatched A, baseline, lb, ub when there is one of them and with
\* batch_arrays([A, baseline, lb, ub], n_out) otherwise
Rebatch(batch, mask) ==
    LET out == SelectMask(batch, Not(mask))
    IN  [samples |-> out, n_blocks |-> Len(out)]

\* mixed batch:
\*   X[idx_slice][in_gamut] = x0[in_gamut]
\*   X[idx_slice][~in_gamut] = result.x.reshape(-1, A.shape[-1])
XAfterMixed(Xc, i) ==
    LET batch == BatchedIteration(i)
        slice == IdxSlice(i)
        mask == InGamutMask(batch, slice)
        x0 == LinearX0(batch)
        prob == Rebatch(batch, mask)
        refined == [j \in DOMAIN prob.samples |->
                      NlRow(prob.samples[j], Range(prob.samples))]
    IN  IF Len(mask) # Len(slice)
        THEN [ok |-> FALSE, X |-> Xc]
        ELSE LET first == AssignRows(Xc, SelectMask(slice, mask),
                                     SelectMask(x0, mask))
             IN  IF ~first.ok THEN first
                 ELSE AssignRows(first.X, SelectMask(slice, Not(mask)),
                                 refined)

\* a faulty variant of ErrorPolicy: only error="raise" raises
ErrorPolicyRaiseOnlyOnRaise(count, policy) ==
    IF count = 0 \/ policy = "ignore"
    THEN [outcome |-> "returned", warnings |-> <<>>, raised_count |-> -1]
    ELSE IF policy = "warn"
    THEN [outcome |-> "returned", warnings |-> <<count>>, raised_count |-> -1]
    ELSE IF policy = "raise"
    THEN [outcome |-> "RuntimeError", warnings |-> <<>>, raised_count |-> count]
    ELSE [outcome |-> "returned", warnings |-> <<>>, raised_count |-> -1]
\* lines 162-170: what the call does with count_failure under the policy;
\* FAILURE_MESSAGE.format(count=count_failure) puts the count in the message
ErrorPolicy(count, policy) ==
    IF count = 0 \/ policy = "ignore"
    THEN [outcome |-> "returned", warnings |-> <<>>, raised_count |-> -1]
    ELSE IF policy = "warn"
    THEN [outcome |-> "returned", warnings |-> <<count>>, raised_count |-> -1]
    ELSE [outcome |-> "RuntimeError", warnings |-> <<>>, raised_count |-> count]

\* a faulty variant of NJobsGiven: n_jobs is not looked at
NJobsGivenNever(nj) == FALSE
\* line 94: if n_jobs is not None
NJobsGiven(nj) == nj # "None"

\* a faulty variant of Failed: a status of 0 is not counted
FailedNegativeOnly(status) == IF status < 0 THEN 1 ELSE 0
\* count_failure += int(result.status <= 0)
Failed(status) == IF status <= 0 THEN 1 ELSE 0

RelIdle ==
    /\ rel_pc = "idle" /\ rel_rtype = "None" /\ rel_bg = <<>> /\ rel_X = <<>>
    /\ rel_abs = <<>> /\ rel_back = <<>> /\ rel_error = "none"

NoCall == [op |-> "none", outcome |-> "none", fitted_check |-> FALSE]

EstIdle ==
    /\ est_kind = "idle" /\ measured_spectra = 0 /\ rtype = "None"
    /\ bg_ints = <<>> /\ attrs = {} /\ measured_spectra_ = 0
    /\ n_features_ = 0 /\ bg_ints_ = <<>> /\ fit_returned = FALSE
    /\ last_call = NoCall

StepIdle ==
    /\ values = <<>> /\ dur_iterable = <<>> /\ repetitions = 0
    /\ iterations = 0 /\ randomize = FALSE /\ seed = 0 /\ period = 0
    /\ start_delay = 0 /\ end_dur = 0 /\ step_pc = "idle" /\ events = <<>>
    /\ signal = <<>> /\ step_error = "none" /\ created_events = <<>>

LsqIdle ==
    /\ n_samples = 0 /\ batch_size = 0 /\ nonlin = FALSE /\ n_jobs = "None"
    /\ error = "raise" /\ in_gamut = <<>> /\ lsq_pc = "idle" /\ X = <<>>
    /\ idx = 0 /\ count_failure = 0 /\ nl_calls = 0 /\ writes = <<>>
    /\ batch_log = <<>> /\ outcome = "none" /\ warnings = <<>>
    /\ raised_count = -1

RngIdle == np_random = 0

RsIdle ==
    /\ rs_values = <<>> /\ rs_total_dur = 0 /\ rs_clip_dur = 0
    /\ rs_iterations = 0 /\ rs_seed = 0 /\ rs_period = 0
    /\ rs_start_delay = 0 /\ rs_end_dur = 0 /\ rs_pc = "idle"
    /\ rs_events = <<>> /\ rs_metadata = <<>> /\ rs_signal = <<>>
    /\ rs_index = 0 /\ rs_error = "none" /\ rs_created = <<>>

NoOptions == [class |-> "none"]

SeedIdle ==
    /\ seed_options = NoOptions /\ seed_seed = 0 /\ seed_before = <<>>
    /\ seed_tables = <<>>

NoMatrix == [dtype |-> "none", rows |-> <<>>]
NoMetCall == [op |-> "none"]

MetIdle ==
    /\ met_n_sources = 0 /\ met_combos = [kind |-> "none"]
    /\ met_pc = "idle" /\ met_source_idcs = NoMatrix /\ met_error = "none"
    /\ met_last = NoMetCall

NoResult == [error |-> "none"]

MixIdle ==
    /\ mix_class = "none" /\ mix_values = <<>>
    /\ mix_baseline = [numeric |-> TRUE, value |-> 0, list |-> <<>>]
    /\ mix_separate = FALSE /\ mix_probs = <<>> /\ mix_ragged = "none"
    /\ mix_pc = "idle" /\ mix_result = NoResult

\* an option left at None, or given a value
None == <<>>
Given(v) == <<v>>
Value(option) == option[1]
NoLayers == [error |-> "none", count |-> 0, assignments |-> <<>>]

DepIdle ==
    /\ dep_n_sources = 0 /\ dep_independent_layers = None
    /\ dep_layer_assignments = None /\ dep_unidirectional = FALSE
    /\ dep_fit_only_uniques = FALSE /\ dep_capture_X = <<>>
    /\ dep_fit_sample = "none" /\ dep_intensity_bounds = <<>>
    /\ dep_pc = "idle" /\ dep_layers = NoLayers /\ dep_bounds = <<>>
    /\ dep_local = [error |-> "none"] /\ dep_fitted = [error |-> "none"]

MeasIdle ==
    /\ meas_call = [op |-> "none"] /\ meas_pc = "idle" /\ meas_result = <<>>

PlotIdle ==
    /\ plot_call = [op |-> "none"] /\ plot_pc = "idle"
    /\ plot_result = [error |-> "none"]

\* the other components are idle
IdleExceptLsq ==
    RelIdle /\ EstIdle /\ StepIdle /\ RngIdle /\ RsIdle /\ SeedIdle
    /\ MetIdle /\ MixIdle /\ DepIdle /\ MeasIdle /\ PlotIdle
IdleExceptRel ==
    LsqIdle /\ EstIdle /\ StepIdle /\ RngIdle /\ RsIdle /\ SeedIdle
    /\ MetIdle /\ MixIdle /\ DepIdle /\ MeasIdle /\ PlotIdle
IdleExceptEst ==
    LsqIdle /\ RelIdle /\ StepIdle /\ RngIdle /\ RsIdle /\ SeedIdle
    /\ MetIdle /\ MixIdle /\ DepIdle /\ MeasIdle /\ PlotIdle
IdleExceptStep ==
    LsqIdle /\ RelIdle /\ EstIdle /\ RngIdle /\ RsIdle /\ SeedIdle /\ MetIdle
    /\ MixIdle /\ DepIdle /\ MeasIdle /\ PlotIdle
IdleExceptRs ==
    LsqIdle /\ RelIdle /\ EstIdle /\ StepIdle /\ SeedIdle /\ MetIdle
    /\ MixIdle /\ DepIdle /\ MeasIdle /\ PlotIdle
IdleExceptSeed ==
    LsqIdle /\ RelIdle /\ EstIdle /\ StepIdle /\ RsIdle /\ MetIdle /\ MixIdle
    /\ DepIdle /\ MeasIdle /\ PlotIdle
IdleExceptMet ==
    LsqIdle /\ RelIdle /\ EstIdle /\ StepIdle /\ RngIdle /\ RsIdle
    /\ SeedIdle /\ MixIdle /\ DepIdle /\ MeasIdle /\ PlotIdle
IdleExceptMix ==
    LsqIdle /\ RelIdle /\ EstIdle /\ StepIdle /\ RngIdle /\ RsIdle
    /\ SeedIdle /\ MetIdle /\ DepIdle /\ MeasIdle /\ PlotIdle
IdleExceptDep ==
    LsqIdle /\ RelIdle /\ EstIdle /\ StepIdle /\ RngIdle /\ RsIdle
    /\ SeedIdle /\ MetIdle /\ MixIdle /\ MeasIdle /\ PlotIdle
IdleExceptMeas ==
    LsqIdle /\ RelIdle /\ EstIdle /\ StepIdle /\ RngIdle /\ RsIdle
    /\ SeedIdle /\ MetIdle /\ MixIdle /\ DepIdle /\ PlotIdle
IdleExceptPlot ==
    LsqIdle /\ RelIdle /\ EstIdle /\ StepIdle /\ RngIdle /\ RsIdle
    /\ SeedIdle /\ MetIdle /\ MixIdle /\ DepIdle /\ MeasIdle

LsqInit ==
    /\ IdleExceptLsq
    /\ n_samples \in 1 .. MaxSamples
    /\ batch_size \in 1 .. MaxBatchSize
    /\ nonlin \in BOOLEAN
    /\ n_jobs \in NJobsValues
    /\ error \in ErrorValues
    /\ in_gamut \in [0 .. (n_samples - 1) -> BOOLEAN]
    /\ lsq_pc = "start"
    /\ X = <<>>
    /\ idx = 0
    /\ count_failure = 0
    /\ nl_calls = 0
    /\ writes = [s \in 0 .. (n_samples - 1) |-> 0]
    /\ batch_log = <<>>
    /\ outcome = "none"
    /\ warnings = <<>>
    /\ raised_count = -1

\* lines 94-95: raise NotImplementedError("parallel jobs")
LsqNJobsRaise ==
    /\ lsq_pc = "start"
    /\ NJobsGiven(n_jobs)
    /\ lsq_pc' = "done"
    /\ outcome' = "NotImplementedError"
    /\ UNCHANGED exceptLsq
    /\ UNCHANGED <<n_samples, batch_size, nonlin, n_jobs, error, in_gamut, X,
                   idx, count_failure, nl_calls, writes, batch_log, warnings,
                   raised_count>>

\* lines 97-102: X = np.zeros(...); count_failure = 0
LsqAllocate ==
    /\ lsq_pc = "start"
    /\ ~NJobsGiven(n_jobs)
    /\ lsq_pc' = "loop"
    /\ X' = [s \in Samples |-> ZeroRow]
    /\ idx' = 0
    /\ count_failure' = 0
    /\ UNCHANGED exceptLsq
    /\ UNCHANGED <<n_samples, batch_size, nonlin, n_jobs, error, in_gamut,
                   nl_calls, writes, batch_log, outcome, warnings,
                   raised_count>>

\* the end of one pass of the loop body: X assigned (or a shape error), the
\* failure counted
LsqBatchEnd(after, branch, status, where, calls) ==
    IF after.ok
    THEN /\ X' = after.X
         /\ writes' = CountWrites(writes, where)
         /\ count_failure' = count_failure + Failed(status)
         /\ batch_log' = Append(batch_log, [branch |-> branch, status |-> status])
         /\ nl_calls' = nl_calls + calls
         /\ idx' = idx + 1
         /\ UNCHANGED <<lsq_pc, outcome>>
    ELSE /\ lsq_pc' = "done"
         /\ outcome' = "ValueError"
         /\ UNCHANGED <<X, writes, count_failure, batch_log, nl_calls, idx>>

\* lines 109-116: the loop body when nonlin is None
LsqBatchLinear(lin_status) ==
    /\ lsq_pc = "loop" /\ idx < NBatches
    /\ ~nonlin
    /\ LsqBatchEnd(XAfterLinear(X, idx), "linear", lin_status, IdxSlice(idx), 0)
    /\ UNCHANGED exceptLsq
    /\ UNCHANGED <<n_samples, batch_size, nonlin, n_jobs, error, in_gamut,
                   warnings, raised_count>>

\* lines 117-126: every sample of the batch is in gamut
LsqBatchAllInGamut(lin_status) ==
    /\ lsq_pc = "loop" /\ idx < NBatches
    /\ nonlin
    /\ LET mask == InGamutMask(BatchedIteration(idx), IdxSlice(idx))
       IN  \A j \in DOMAIN mask : mask[j]
    /\ LsqBatchEnd(XAfterAllInGamut(X, idx), "all_in_gamut", lin_status,
                   IdxSlice(idx), 0)
    /\ UNCHANGED exceptLsq
    /\ UNCHANGED <<n_samples, batch_size, nonlin, n_jobs, error, in_gamut,
                   warnings, raised_count>>

\* lines 128-136: no sample of the batch is in gamut
LsqBatchNoneInGamut(nl_status) ==
    /\ lsq_pc = "loop" /\ idx < NBatches
    /\ nonlin
    /\ LET mask == InGamutMask(BatchedIteration(idx), IdxSlice(idx))
       IN  /\ \E j \in DOMAIN mask : ~mask[j]
           /\ \A j \in DOMAIN mask : ~mask[j]
    /\ LsqBatchEnd(XAfterNoneInGamut(X, idx), "none_in_gamut", nl_status,
                   <<>>, 1)
    /\ UNCHANGED exceptLsq
    /\ UNCHANGED <<n_samples, batch_size, nonlin, n_jobs, error, in_gamut,
                   warnings, raised_count>>

\* lines 138-158: some samples of the batch are in gamut, some are not
LsqBatchMixed(nl_status) ==
    /\ lsq_pc = "loop" /\ idx < NBatches
    /\ nonlin
    /\ LET mask == InGamutMask(BatchedIteration(idx), IdxSlice(idx))
       IN  /\ \E j \in DOMAIN mask : mask[j]
           /\ \E j \in DOMAIN mask : ~mask[j]
    /\ LsqBatchEnd(XAfterMixed(X, idx), "mixed", nl_status, IdxSlice(idx), 1)
    /\ UNCHANGED exceptLsq
    /\ UNCHANGED <<n_samples, batch_size, nonlin, n_jobs, error, in_gamut,
                   warnings, raised_count>>

\* lines 162-170: the error policy and the return
LsqFinish ==
    /\ lsq_pc = "loop" /\ idx = NBatches
    /\ LET r == ErrorPolicy(count_failure, error)
       IN  /\ outcome' = r.outcome
           /\ warnings' = r.warnings
           /\ raised_count' = r.raised_count
    /\ lsq_pc' = "done"
    /\ UNCHANGED exceptLsq
    /\ UNCHANGED <<n_samples, batch_size, nonlin, n_jobs, error, in_gamut, X,
                   idx, count_failure, nl_calls, writes, batch_log>>

LsqNext ==
    \/ LsqNJobsRaise
    \/ LsqAllocate
    \/ \E s \in StatusValues : LsqBatchLinear(s)
    \/ \E s \in StatusValues : LsqBatchAllInGamut(s)
    \/ \E s \in StatusValues : LsqBatchNoneInGamut(s)
    \/ \E s \in StatusValues : LsqBatchMixed(s)
    \/ LsqFinish

SpecLsq ==
    /\ LsqInit
    /\ [][LsqNext]_vars

(***************************************************************************)
(* Claims about lsq_nonlinear.                                             *)
(***************************************************************************)
\* the call ran its batch loop to the end (it returned, or the error policy
\* raised)
LsqLoopEnded == lsq_pc = "done" /\ outcome \in {"returned", "RuntimeError"}

\* the batch logged at position b of batch_log
BatchOf(b) == BatchedIteration(b - 1)

\* C1: with a nonlinearity, the rows of X of every batch in which no sample
\* is in gamut equal the result of the nonlinear refinement of that batch
\* (they are not left at their initial zero).
C1_NoneInGamutRowsRefined ==
    (LsqLoopEnded /\ nonlin) =>
        \A b \in DOMAIN batch_log :
            batch_log[b].branch = "none_in_gamut" =>
                \A s \in Range(BatchOf(b)) :
                    X[s] = NlRow(s, Range(BatchOf(b)))

\* C1, what the code does: the rows of such a batch are still the zeros X
\* was allocated with.
C1_NoneInGamutRowsLeftZero ==
    nonlin =>
        \A b \in DOMAIN batch_log :
            batch_log[b].branch = "none_in_gamut" =>
                \A s \in Range(BatchOf(b)) : X[s] = ZeroRow

C1_Witness ==
    /\ LsqLoopEnded /\ outcome = "returned" /\ nonlin
    /\ \E b \in DOMAIN batch_log : batch_log[b].branch = "none_in_gamut"

\* C2: when the batch loop ends with c failures, c > 0: "ignore" returns X
\* with no warning, "warn" returns X with exactly one warning carrying c, any
\* other policy raises the error carrying c and returns nothing; with c = 0
\* every policy returns X with no warning and no error.
C2_ErrorPolicy ==
    (lsq_pc = "done" /\ idx = NBatches /\ X # <<>>) =>
        IF count_failure = 0
        THEN outcome = "returned" /\ warnings = <<>> /\ raised_count = -1
        ELSE IF error = "ignore"
        THEN outcome = "returned" /\ warnings = <<>> /\ raised_count = -1
        ELSE IF error = "warn"
        THEN /\ outcome = "returned" /\ warnings = <<count_failure>>
             /\ raised_count = -1
        ELSE /\ outcome = "RuntimeError" /\ warnings = <<>>
             /\ raised_count = count_failure

C2_Witness ==
    /\ lsq_pc = "done" /\ count_failure = 2 /\ error = "strict"
    /\ outcome = "RuntimeError" /\ raised_count = 2

\* C3: in a mixed batch the rows of the in-gamut samples are their linear
\* solutions, the rows of the out-of-gamut samples are the refinement of a
\* problem made of exactly the out-of-gamut samples (also when there is one),
\* and handling the batch leaves the rows of the other batches alone.
C3_MixedRows ==
    \A b \in DOMAIN batch_log :
        batch_log[b].branch = "mixed" =>
            LET out == {s \in Range(BatchOf(b)) : ~in_gamut[s]}
            IN  \A s \in Range(BatchOf(b)) :
                    X[s] = IF in_gamut[s] THEN LinRow(s) ELSE NlRow(s, out)

C3_MixedFrame ==
    (/\ Len(batch_log') = Len(batch_log) + 1
     /\ batch_log'[Len(batch_log')].branch = "mixed")
        => \A s \in Samples :
               s \notin Range(BatchedIteration(idx)) => X'[s] = X[s]

C3_MixedBatch == [](C3_MixedRows) /\ [][C3_MixedFrame]_vars

C3_Witness ==
    /\ lsq_pc = "done" /\ outcome = "returned" /\ Len(batch_log) >= 2
    /\ \E b \in DOMAIN batch_log :
          /\ batch_log[b].branch = "mixed"
          /\ Cardinality({s \in Range(BatchOf(b)) : ~in_gamut[s]}) = 1
    /\ \E b \in DOMAIN batch_log : batch_log[b].branch # "mixed"

\* C4: with a nonlinearity, when the linear solution of every sample is in
\* gamut the nonlinear solver is never called and the returned X holds the
\* linear solutions.
C4_AllInGamutShortCircuit ==
    (nonlin /\ \A s \in Samples : in_gamut[s]) =>
        /\ nl_calls = 0
        /\ lsq_pc = "done" /\ ~NJobsGiven(n_jobs) =>
              /\ outcome \in {"returned", "RuntimeError"}
              /\ \A s \in Samples : X[s] = LinRow(s)

C4_Witness ==
    /\ lsq_pc = "done" /\ outcome = "returned" /\ nonlin
    /\ n_samples >= 2 /\ Len(batch_log) >= 2
    /\ \A s \in Samples : in_gamut[s]

\* C5: for a linear-only problem every row of X is written exactly once and
\* holds the linear solution of its own sample, whatever the batch size (1,
\* all the samples, or a size that does not divide their number): X does not
\* depend on batch_size.
C5_BatchSizeInvariance ==
    (lsq_pc = "done" /\ ~nonlin /\ ~NJobsGiven(n_jobs)) =>
        /\ outcome \in {"returned", "RuntimeError"}
        /\ \A s \in Samples : X[s] = LinRow(s) /\ writes[s] = 1

C5_Witness ==
    /\ lsq_pc = "done" /\ ~nonlin /\ outcome = "returned"
    /\ n_samples = 3 /\ batch_size = 2

\* C6: with n_jobs set the call fails with NotImplementedError and produces
\* no X, under every error policy, and no solve is run.
C6_NJobsNotSupported ==
    (lsq_pc = "done" /\ n_jobs # "None") =>
        /\ outcome = "NotImplementedError"
        /\ X = <<>> /\ warnings = <<>> /\ batch_log = <<>>

C6_Witness ==
    /\ lsq_pc = "done" /\ n_jobs # "None" /\ error = "ignore"
    /\ outcome = "NotImplementedError"

(***************************************************************************)
(*        RelativeIntensityFit: relative <-> absolute intensity            *)
(*                                                                         *)
(* A number is kept exactly, as m * exp(e) with integers m and e (f =      *)
(* "num"); np.log of such a number is e when m = 1, -inf when m = 0 and    *)
(* the symbolic ln(m) + e otherwise (f = "ln").                            *)
(***************************************************************************)
RTypes == {"None", "weber", "fechner", "log"}

Num(x) == [f |-> "num", m |-> x, e |-> 0]
\* np.exp of an integer
Exp(v) == [f |-> "num", m |-> 1, e |-> v.m]
\* np.log of a non-negative number
Log(v) ==
    IF v.m = 1 THEN Num(v.e)
    ELSE IF v.m = 0 THEN [f |-> "neginf", m |-> 0, e |-> 0]
    ELSE [f |-> "ln", m |-> v.m, e |-> v.e]
Times(v, b) == [v EXCEPT !.m = v.m * b]
Plus(v, b) == [v EXCEPT !.m = v.m + b]
Minus(v, b) == [v EXCEPT !.m = v.m - b]
\* v / b; the quotient is exact wherever the model divides
Over(v, b) == [v EXCEPT !.m = v.m \div b]
NonNegative(v) == v.m >= 0

\* X (op) self.bg_ints_[None]: the row and the vector broadcast when their
\* lengths agree or one of them is 1
Broadcasts(row, bg) == Len(row) = Len(bg) \/ Len(row) = 1 \/ Len(bg) = 1
BroadcastLen(row, bg) == Max(Len(row), Len(bg))
At(v, i) == IF Len(v) = 1 THEN v[1] ELSE v[i]

\* RelativeIntensityFit._to_absolute_intensity, on one row of X
ToAbsoluteIntensity(row, rt, bg) ==
    LET X1 == IF rt \in {"fechner", "log"}
              THEN [i \in DOMAIN row |-> Exp(row[i])]
              ELSE row
    IN  IF rt \notin {"fechner", "log"} /\ rt # "weber"
           /\ \E i \in DOMAIN row : ~NonNegative(row[i])
        THEN [outcome |-> "AssertionError", val |-> <<>>]
        ELSE IF ~Broadcasts(row, bg)
        THEN [outcome |-> "ValueError", val |-> <<>>]
        ELSE LET X2 == [i \in 1 .. BroadcastLen(row, bg) |->
                          Times(At(X1, i), At(bg, i))]
                 X3 == IF rt = "weber"
                       THEN [i \in DOMAIN X2 |-> Plus(X2[i], At(bg, i))]
                       ELSE X2
             IN  [outcome |-> "returned", val |-> X3]

\* RelativeIntensityFit._to_relative_intensity, on one row of X
ToRelativeIntensity(row, rt, bg) ==
    IF ~Broadcasts(row, bg)
    THEN [outcome |-> "ValueError", val |-> <<>>]
    ELSE LET n == BroadcastLen(row, bg)
             X1 == IF rt = "weber"
                   THEN [i \in 1 .. n |-> Minus(At(row, i), At(bg, i))]
                   ELSE [i \in 1 .. n |-> At(row, i)]
             X2 == [i \in 1 .. n |-> Over(X1[i], At(bg, i))]
         IN  IF \E i \in 1 .. n : ~NonNegative(X2[i])
             THEN [outcome |-> "AssertionError", val |-> <<>>]
             ELSE IF rt \in {"fechner", "log"}
             THEN [outcome |-> "returned", val |-> [i \in 1 .. n |-> Log(X2[i])]]
             ELSE [outcome |-> "returned", val |-> X2]

NumRow(row) == [i \in DOMAIN row |-> Num(row[i])]

RelInit ==
    /\ IdleExceptRel
    /\ rel_pc = "in"
    /\ rel_rtype \in RTypes
    /\ \E n \in 1 .. MaxCols :
          /\ rel_bg \in [1 .. n -> 1 .. MaxBg]
          /\ rel_X \in [1 .. n -> -2 .. MaxRel]
    /\ rel_abs = <<>>
    /\ rel_back = <<>>
    /\ rel_error = "none"

\* the call _to_absolute_intensity(X)
RelToAbsolute ==
    /\ rel_pc = "in"
    /\ LET r == ToAbsoluteIntensity(NumRow(rel_X), rel_rtype, rel_bg)
       IN  /\ rel_pc' = IF r.outcome = "returned" THEN "abs" ELSE "raised"
           /\ rel_abs' = r.val
           /\ rel_error' = IF r.outcome = "returned" THEN "none" ELSE r.outcome
    /\ UNCHANGED exceptRel
    /\ UNCHANGED <<rel_rtype, rel_bg, rel_X, rel_back>>

\* the call _to_relative_intensity(...) on its result
RelToRelative ==
    /\ rel_pc = "abs"
    /\ LET r == ToRelativeIntensity(rel_abs, rel_rtype, rel_bg)
       IN  /\ rel_pc' = IF r.outcome = "returned" THEN "rel" ELSE "raised"
           /\ rel_back' = r.val
           /\ rel_error' = IF r.outcome = "returned" THEN "none" ELSE r.outcome
    /\ UNCHANGED exceptRel
    /\ UNCHANGED <<rel_rtype, rel_bg, rel_X, rel_abs>>

RelNext == RelToAbsolute \/ RelToRelative

SpecRel ==
    /\ RelInit
    /\ [][RelNext]_vars

\* C8: with rtype "weber" and positive bg_ints the round trip
\* _to_relative_intensity(_to_absolute_intensity(X)) returns X, without
\* raising, for every X whose entries are >= -1.
C8_WeberRoundTrip ==
    (/\ rel_rtype = "weber"
     /\ \A i \in DOMAIN rel_X : rel_X[i] >= -1
     /\ rel_pc \in {"rel", "raised"})
        => rel_error = "none" /\ rel_back = NumRow(rel_X)

\* C8, what the code does: the round trip returns X when no entry of X is
\* negative, and raises AssertionError in _to_relative_intensity otherwise.
C8_WeberRoundTripNonNegativeOnly ==
    (rel_rtype = "weber" /\ rel_pc \in {"rel", "raised"}) =>
        IF \A i \in DOMAIN rel_X : rel_X[i] >= 0
        THEN rel_pc = "rel" /\ rel_back = NumRow(rel_X)
        ELSE rel_pc = "raised" /\ rel_error = "AssertionError"
             /\ rel_abs # <<>>

C8_Witness ==
    /\ rel_rtype = "weber" /\ rel_pc = "raised"
    /\ \A i \in DOMAIN rel_X : rel_X[i] >= -1
    /\ \A i \in DOMAIN rel_bg : rel_bg[i] > 0

(***************************************************************************)
(*            IntensityFit and RelativeIntensityFit                        *)
(*                                                                         *)
(* The estimator's attributes whose values no later call reads             *)
(* (current_X_, fitted_intensities_, fitted_relative_intensities_) are     *)
(* kept by name only.                                                      *)
(***************************************************************************)
EstKinds == {"IntensityFit", "RelativeIntensityFit"}

\* _SpectraModel._check_measured_spectra(measured_spectra, smoothing_window,
\* size): the container given, or one created with `size` spectra; the
\* number of its spectra
CheckMeasuredSpectra(ms, size) == IF ms = 0 THEN size ELSE ms

Ones(n) == [i \in 1 .. n |-> 1]

\* sklearn's check_is_fitted(self, ['n_features_', 'measured_spectra_'])
IsFitted(a) == {"n_features_", "measured_spectra_"} \subseteq a

Raised(exc, a, ms, nf, bg) ==
    [outcome |-> exc, attrs |-> a, measured_spectra_ |-> ms,
     n_features_ |-> nf, bg_ints_ |-> bg]

\* IntensityFit.fit(X), X one row; x_valid: _check_X accepts X
IntensityFitFit(row, x_valid) ==
    LET ms == CheckMeasuredSpectra(measured_spectra, Len(row))
        a1 == attrs \cup {"measured_spectra_"}
        a2 == a1 \cup {"current_X_", "n_features_"}
    IN  IF ~x_valid
        THEN Raised("ValueError", a1, ms, n_features_, bg_ints_)
        ELSE IF Len(row) # ms
        THEN Raised("ValueError", a2, ms, ms, bg_ints_)
        ELSE Raised("returned", a2 \cup {"fitted_intensities_"}, ms, ms,
                    bg_ints_)

\* RelativeIntensityFit.fit(X), X one row; x_valid: _check_X accepts X
RelativeIntensityFitFit(row, x_valid) ==
    LET ms == CheckMeasuredSpectra(measured_spectra, Len(row))
        a1 == attrs \cup {"measured_spectra_", "bg_ints_"}
        bg == IF bg_ints = <<>> THEN Ones(ms) ELSE bg_ints
        a2 == a1 \cup {"current_X_", "fitted_relative_intensities_",
                       "n_features_"}
    IN  IF bg_ints # <<>> /\ Len(bg) # ms
        THEN Raised("AssertionError", a1, ms, n_features_, bg)
        ELSE IF bg_ints # <<>> /\ \E i \in DOMAIN bg : bg[i] <= 0
        THEN Raised("AssertionError", a1, ms, n_features_, bg)
        ELSE IF ~x_valid
        THEN Raised("ValueError", a1, ms, n_features_, bg)
        ELSE IF Len(row) # ms
        THEN Raised("ValueError", a2, ms, ms, bg)
        ELSE LET r == ToAbsoluteIntensity(NumRow(row), rtype, bg)
             IN  IF r.outcome # "returned"
                 THEN Raised(r.outcome, a2, ms, ms, bg)
                 ELSE Raised("returned", a2 \cup {"fitted_intensities_"}, ms,
                             ms, bg)

\* inverse_transform(X); x_valid: check_array accepts X; intensities: what
\* measured_spectra_.inverse_map(X) returns
InverseTransformResult(x_valid, intensities) ==
    IF ~IsFitted(attrs)
    THEN [outcome |-> "NotFittedError", fitted_check |-> FALSE]
    ELSE IF ~x_valid
    THEN [outcome |-> "ValueError", fitted_check |-> TRUE]
    ELSE IF est_kind = "IntensityFit"
    THEN [outcome |-> "returned", fitted_check |-> TRUE]
    ELSE [outcome |-> ToRelativeIntensity(NumRow(intensities), rtype,
                                          bg_ints_).outcome,
          fitted_check |-> TRUE]

EstInit ==
    /\ IdleExceptEst
    /\ est_kind \in EstKinds
    /\ measured_spectra \in 0 .. MaxCols
    /\ rtype \in IF est_kind = "IntensityFit" THEN {"None"} ELSE RTypes
    /\ bg_ints \in IF est_kind = "IntensityFit" THEN {<<>>}
                   ELSE {<<>>} \cup UNION {[1 .. n -> 0 .. MaxBg] :
                                            n \in 1 .. MaxCols}
    /\ attrs = {}
    /\ measured_spectra_ = 0
    /\ n_features_ = 0
    /\ bg_ints_ = <<>>
    /\ fit_returned = FALSE
    /\ last_call = NoCall

\* a call of fit(X)
EstFit(row, x_valid) ==
    /\ est_kind \in EstKinds
    /\ LET r == IF est_kind = "IntensityFit"
                THEN IntensityFitFit(row, x_valid)
                ELSE RelativeIntensityFitFit(row, x_valid)
       IN  /\ attrs' = r.attrs
           /\ measured_spectra_' = r.measured_spectra_
           /\ n_features_' = r.n_features_
           /\ bg_ints_' = r.bg_ints_
           /\ fit_returned' = (fit_returned \/ r.outcome = "returned")
           /\ last_call' = [op |-> "fit", outcome |-> r.outcome,
                            fitted_check |-> FALSE]
    /\ UNCHANGED exceptEst
    /\ UNCHANGED <<est_kind, measured_spectra, rtype, bg_ints>>

\* a call of inverse_transform(X)
EstInverseTransform(x_valid, intensities) ==
    /\ est_kind \in EstKinds
    /\ Len(intensities) = IF measured_spectra_ = 0 THEN 1 ELSE measured_spectra_
    /\ LET r == InverseTransformResult(x_valid, intensities)
       IN  last_call' = [op |-> "inverse_transform", outcome |-> r.outcome,
                         fitted_check |-> r.fitted_check]
    /\ UNCHANGED exceptEst
    /\ UNCHANGED <<est_kind, measured_spectra, rtype, bg_ints, attrs,
                   measured_spectra_, n_features_, bg_ints_, fit_returned>>

EstRows == UNION {[1 .. n -> -1 .. MaxRel] : n \in 1 .. MaxCols}
EstIntensities == UNION {[1 .. n -> 0 .. MaxBg] : n \in 1 .. MaxCols}

EstNext ==
    \/ \E row \in EstRows, x_valid \in BOOLEAN : EstFit(row, x_valid)
    \/ \E x_valid \in BOOLEAN, intensities \in EstIntensities :
          EstInverseTransform(x_valid, intensities)

SpecEst ==
    /\ EstInit
    /\ [][EstNext]_vars

\* C7: inverse_transform passes its fitted-state check only if an earlier
\* fit call on the estimator returned; after failed fits only, it is
\* rejected as not fitted.
C7_InverseTransformNeedsFit ==
    (last_call.op = "inverse_transform" /\ last_call.fitted_check)
        => fit_returned

\* C7, what the code does: the check passes as soon as a fit call has got as
\* far as setting n_features_, which it does before it checks the columns of
\* X (and, in RelativeIntensityFit, before it converts X).
C7_FittedCheckFollowsAttributes ==
    /\ (last_call.op = "inverse_transform") =>
          (last_call.fitted_check <=> "n_features_" \in attrs)
    /\ fit_returned => "n_features_" \in attrs
    /\ "n_features_" \in attrs => "measured_spectra_" \in attrs

C7_Witness ==
    /\ last_call.op = "inverse_transform" /\ last_call.fitted_check
    /\ ~fit_returned

(***************************************************************************)
(*                        StepStimulus                                     *)
(*                                                                         *)
(* Time is counted in ticks; a frame lasts `period` ticks (rate is         *)
(* 1 / period), so frame f is at time f * period. The model covers func    *)
(* unset.                                                                  *)
(***************************************************************************)
\* the value tables the instances are built with: rows of two channels
ValueTables == { << <<1, 2>> >>, << <<1, 2>>, <<3, 4>> >> }
\* baseline_values=0, broadcast over the channels by _set_baseline_values
BaselineValues == <<0, 0>>
DurationLists == { <<1>>, <<2>>, <<1, 3>>, <<3, 1>> }
PauseLists == { <<0>>, <<1>>, <<0, 2>> }
Seeds == 0 .. 2
RepetitionCounts == 1 .. 2
\* start_delay and end_dur, in ticks
StartDelays == 0 .. 1
EndDurs == 0 .. 1
\* the sizes of the tables that are shuffled
ShuffledSizes == 1 .. 3

\* StepStimulus._set_durs: zip(durations, pause_durations) when aligned,
\* itertools.product(durations, pause_durations) otherwise
SetDurs(durations, pause_durations, aligned_durations) ==
    IF aligned_durations
    THEN [k \in 1 .. Len(durations) |-> <<durations[k], pause_durations[k]>>]
    ELSE [k \in 1 .. (Len(durations) * Len(pause_durations)) |->
            <<durations[((k - 1) \div Len(pause_durations)) + 1],
              pause_durations[((k - 1) % Len(pause_durations)) + 1]>>]

\* the number of rows the nested loops of _create_events append
BaseLen(vals, durs, reps) == Len(vals) * Len(durs) * reps

\* lines 134-140: for each row of values, for each (dur, pause), `repetitions`
\* copies of the row; 'repeat' is df.index, which is the index of the row of
\* values in every copy
BaseEvents(vals, durs, reps) ==
    [k \in 1 .. BaseLen(vals, durs, reps) |->
        LET index == (k - 1) \div (Len(durs) * reps)
            d == ((k - 1) \div reps) % Len(durs)
        IN  [values |-> vals[index + 1], dur |-> durs[d + 1][1],
             pause |-> durs[d + 1][2], repeat |-> index, iter |-> 0,
             delay |-> 0]]

Perms(n) == {f \in [1 .. n -> 1 .. n] : \A a, b \in 1 .. n : f[a] = f[b] => a = b}

\* the order events.sample(frac=1, random_state=seed) gives for a seed that is
\* not None: a fixed function of the seed and the number of rows
SeededPerm(sd, n) == [j \in 1 .. n |-> ((j - 1 + sd) % n) + 1]

\* lines 142-145: events.sample(frac=1).reset_index(drop=True)
Shuffle(ev, perm) == [j \in DOMAIN ev |-> ev[perm[j]]]

\* lines 147-153: `iterations - 1` times, append a copy of the table as it is
\* by then, tagged with the pass number
RECURSIVE IterateEvents(_, _, _)
IterateEvents(ev, n, iters) ==
    IF n >= iters - 1 THEN ev
    ELSE IterateEvents(ev \o [j \in DOMAIN ev |-> [ev[j] EXCEPT !.iter = n + 1]],
                       n + 1, iters)

\* np.cumsum of dur + pause
RECURSIVE CumSum(_, _)
CumSum(ev, i) ==
    IF i = 0 THEN 0 ELSE CumSum(ev, i - 1) + ev[i].dur + ev[i].pause

\* lines 155-159: delays = cumsum; delays -= delays[0]; delays += start_delay
WithDelays(ev, start) ==
    [i \in DOMAIN ev |->
        [ev[i] EXCEPT !.delay = CumSum(ev, i) - CumSum(ev, 1) + start]]

\* StepStimulus._create_events
CreateEvents(vals, durs, reps, iters, shuffled, perm, start) ==
    LET base == BaseEvents(vals, durs, reps)
        ordered == IF shuffled THEN Shuffle(base, perm) ELSE base
    IN  WithDelays(IterateEvents(ordered, 0, iters), start)

\* lines 168-175: total_frames = int(np.ceil(total_dur * self.rate))
TotalFrames(ev, e_dur, per) ==
    CeilDiv(ev[Len(ev)].delay + ev[Len(ev)].dur + ev[Len(ev)].pause + e_dur,
            per)

\* a faulty variant of TBool: the interval is closed at its end
TBoolClosed(row, total, per) ==
    {f \in 0 .. (total - 1) :
        f * per >= row.delay /\ f * per <= row.delay + row.dur}
\* lines 184-187: tbool, as the set of the frames it selects
TBool(row, total, per) ==
    {f \in 0 .. (total - 1) :
        f * per >= row.delay /\ f * per < row.delay + row.dur}

SetMin(S) == CHOOSE x \in S : \A y \in S : x <= y

\* lines 183-198, from event i on: an event that selects no frame raises
\* IndexError at times[tbool][0]; otherwise its delay is corrected and its
\* frames are overwritten with its values
RECURSIVE InsertSteps(_, _, _, _, _)
InsertSteps(ev, i, sig, total, per) ==
    IF i > Len(ev)
    THEN [error |-> "none", events |-> ev, signal |-> sig]
    ELSE LET tbool == TBool(ev[i], total, per)
         IN  IF tbool = {}
             THEN [error |-> "IndexError", events |-> ev, signal |-> <<>>]
             ELSE InsertSteps(
                    [ev EXCEPT ![i].delay = SetMin(tbool) * per],
                    i + 1,
                    [f \in DOMAIN sig |->
                        IF (f - 1) \in tbool THEN ev[i].values ELSE sig[f]],
                    total, per)

\* StepStimulus._create_signal
CreateSignal(ev, e_dur, per) ==
    LET total == TotalFrames(ev, e_dur, per)
    IN  InsertSteps(ev, 1, [f \in 1 .. total |-> BaselineValues], total, per)

StepInit ==
    /\ IdleExceptStep
    /\ values \in ValueTables
    /\ \E durations \in DurationLists, pause_durations \in PauseLists,
          aligned_durations \in BOOLEAN :
          /\ aligned_durations => Len(durations) = Len(pause_durations)
          /\ dur_iterable = SetDurs(durations, pause_durations,
                                    aligned_durations)
    /\ repetitions \in RepetitionCounts
    /\ iterations \in 1 .. MaxIter
    /\ randomize \in BOOLEAN
    /\ seed \in Seeds
    /\ ~randomize => seed = 0
    /\ BaseLen(values, dur_iterable, repetitions) <= MaxBase
    /\ randomize => BaseLen(values, dur_iterable, repetitions) \in ShuffledSizes
    /\ period \in 1 .. MaxPeriod
    /\ start_delay \in StartDelays
    /\ end_dur \in EndDurs
    /\ step_pc = "new"
    /\ events = <<>>
    /\ signal = <<>>
    /\ step_error = "none"
    /\ created_events = <<>>

\* create(): self._events, self._metadata = self._create_events()
StepCreateEvents(perm) ==
    /\ step_pc = "new"
    /\ (randomize /\ seed # 0) =>
          perm = SeededPerm(seed, BaseLen(values, dur_iterable, repetitions))
    /\ ~randomize =>
          perm = SeededPerm(0, BaseLen(values, dur_iterable, repetitions))
    /\ events' = CreateEvents(values, dur_iterable, repetitions, iterations,
                              randomize, perm, start_delay)
    /\ created_events' = events'
    /\ step_pc' = "events"
    /\ UNCHANGED exceptStep
    /\ UNCHANGED <<values, dur_iterable, repetitions, iterations, randomize,
                   seed, period, start_delay, end_dur, signal, step_error>>

\* create(): self._signal = self._create_signal(self._events)
StepCreateSignal ==
    /\ step_pc = "events"
    /\ LET r == CreateSignal(events, end_dur, period)
       IN  /\ events' = r.events
           /\ signal' = r.signal
           /\ step_error' = r.error
           /\ step_pc' = IF r.error = "none" THEN "signal" ELSE "raised"
    /\ UNCHANGED exceptStep
    /\ UNCHANGED <<values, dur_iterable, repetitions, iterations, randomize,
                   seed, period, start_delay, end_dur, created_events>>

StepNext ==
    \/ \E perm \in Perms(BaseLen(values, dur_iterable, repetitions)) :
          StepCreateEvents(perm)
    \/ StepCreateSignal

SpecStep ==
    /\ StepInit
    /\ [][StepNext]_vars

\* the rows of one pass over the stimulus
StepBase == BaseLen(values, dur_iterable, repetitions)

\* C9 (StepStimulus): with iterations = k the event table is k consecutive
\* copies of the single-iteration sequence: k times its rows, copy i tagged
\* iter = i, each copy with the values, durations and pauses of copy 0 in
\* the same order.
C9_IterationsAreCopies ==
    step_pc # "new" =>
        /\ Len(created_events) = iterations * StepBase
        /\ \A i \in 0 .. (iterations - 1) : \A j \in 1 .. StepBase :
              LET row == created_events[i * StepBase + j]
              IN  /\ row.iter = i
                  /\ row.values = created_events[j].values
                  /\ row.dur = created_events[j].dur
                  /\ row.pause = created_events[j].pause

RECURSIVE Pow2(_)
Pow2(n) == IF n = 0 THEN 1 ELSE 2 * Pow2(n - 1)

\* C9, what the code does: every pass of the loop appends a copy of the
\* whole table built so far, so the table has 2^(k-1) times the rows of one
\* pass (k copies for k <= 2 only), and the copies are not reshuffled.
C9_IterationsDoubleTheTable ==
    step_pc # "new" =>
        /\ Len(created_events) = Pow2(iterations - 1) * StepBase
        /\ \A i \in 0 .. (Pow2(iterations - 1) - 1) : \A j \in 1 .. StepBase :
              LET row == created_events[i * StepBase + j]
              IN  /\ row.values = created_events[j].values
                  /\ row.dur = created_events[j].dur
                  /\ row.pause = created_events[j].pause

C9_Witness ==
    /\ step_pc = "events" /\ iterations = 3
    /\ Len(created_events) = 4 * StepBase

\* the time of frame f (from 0) lies in the interval of row r of the table as
\* _create_events returned it
Covers(r, f) ==
    /\ created_events[r].delay <= f * period
    /\ f * period < created_events[r].delay + created_events[r].dur

\* C10: the signal create() builds has ceil(total_duration * rate) frames,
\* total_duration being the last event's delay + duration + pause + end_dur; a
\* frame whose time is in no event's interval [delay, delay + duration) holds
\* the baseline values, a frame whose time is in some event's interval holds
\* the values of an event that covers it.
C10_SignalFrames ==
    step_pc = "signal" =>
        LET last == created_events[Len(created_events)]
        IN  /\ Len(signal) =
                 CeilDiv(last.delay + last.dur + last.pause + end_dur, period)
            /\ \A f \in 0 .. (Len(signal) - 1) :
                  IF \E r \in DOMAIN created_events : Covers(r, f)
                  THEN \E r \in DOMAIN created_events :
                          Covers(r, f)
                          /\ signal[f + 1] = created_events[r].values
                  ELSE signal[f + 1] = BaselineValues

C10_Witness ==
    /\ step_pc = "signal" /\ Len(created_events) >= 2 /\ period = 2
    /\ \E f \in 0 .. (Len(signal) - 1) : signal[f + 1] = BaselineValues
    /\ \E f \in 0 .. (Len(signal) - 1) : signal[f + 1] # BaselineValues
    /\ \E r, q \in DOMAIN created_events, f \in 0 .. (Len(signal) - 1) :
          r # q /\ Covers(r, f) /\ Covers(q, f)

\* C11: the corrected ('true') delay _create_signal writes back into the
\* event table is the frame boundary at or below the event's nominal delay:
\* true delay <= nominal delay < true delay + 1/rate.
C11_TrueDelayAtOrBelow ==
    step_pc = "signal" =>
        \A r \in DOMAIN events :
            /\ events[r].delay <= created_events[r].delay
            /\ created_events[r].delay < events[r].delay + period

\* C11, what the code does: times[tbool][0] is the first frame at or after
\* the nominal delay, so the true delay is the frame boundary at or above it.
C11_TrueDelayAtOrAbove ==
    step_pc = "signal" =>
        \A r \in DOMAIN events :
            /\ created_events[r].delay <= events[r].delay
            /\ events[r].delay < created_events[r].delay + period

C11_Witness ==
    /\ step_pc = "signal"
    /\ \E r \in DOMAIN events : events[r].delay > created_events[r].delay

(***************************************************************************)
(*                      RandomSwitchStimulus                               *)
(*                                                                         *)
(* Times are in ticks, as for StepStimulus. numpy's global generator is a  *)
(* state that every draw reads and advances; np.random.seed(k) sets it to  *)
(* a state that depends on k only, np.random.seed(None) to a state taken   *)
(* from the operating system. scipy's frozen distribution draws from the   *)
(* global generator (its random_state is None). The model covers           *)
(* values_probs=None (uniform choice) and func unset.                      *)
(***************************************************************************)
RngStates == 0 .. 15
\* the generator's state after one draw
NextState(s) == (5 * s + 3) % 16
\* the number a draw in state s yields
Uniform(s) == s
\* the state np.random.seed(sd) sets, sd not None
SeedState(sd) == (11 * sd) % 16

\* a faulty variant of Reseed: the generator is left as it is
ReseedNever(sd, s) == {s}
\* line 319: np.random.seed(self.seed); the states it can leave
Reseed(sd, s) == IF sd = 0 THEN RngStates ELSE {SeedState(sd)}

\* distribution.rvs(): a duration in (0, clip_dur]
Rvs(s, clip) == (Uniform(s) % clip) + 1
\* np.random.choice(ele, p=uniform)
Choice(s, ele) == ele[(Uniform(s) % Len(ele)) + 1]

RsValueTables == { << <<0, 1>> >>, << <<1, 2>>, <<3>> >> }
RsBaseline(vals) == [c \in DOMAIN vals |-> 0]

\* a faulty variant of CumDurBelow: the loop stops one tick early
CumDurBelowEarly(cum, total) == cum + 1 < total
\* line 327: while cum_dur < self.total_dur
CumDurBelow(cum, total) == cum < total

\* lines 327-349: the while loop of one channel, from cumulated duration cum
\* and generator state s
RECURSIVE RsChannelLoop(_, _, _, _, _, _, _)
RsChannelLoop(key, ele, cum, s, rows, total, clip) ==
    IF ~CumDurBelow(cum, total)
    THEN [rows |-> rows, state |-> s, cum |-> cum]
    ELSE LET dur == Rvs(s, clip)
             value == Choice(NextState(s), ele)
             row == [delay |-> cum, dur |-> dur, channel |-> key,
                     value |-> value, iter |-> 0]
         IN  RsChannelLoop(key, ele, cum + dur, NextState(NextState(s)),
                           Append(rows, row), total, clip)

\* lines 323-349: the channels in the order of self.values; cum_dur starts at
\* a draw of the distribution
RECURSIVE RsChannels(_, _, _, _, _, _)
RsChannels(vals, key, s, rows, total, clip) ==
    IF key > Len(vals)
    THEN [rows |-> rows, state |-> s]
    ELSE LET r == RsChannelLoop(key, vals[key], Rvs(s, clip), NextState(s),
                                <<>>, total, clip)
         IN  RsChannels(vals, key + 1, r.state, rows \o r.rows, total, clip)

\* line 352: events['end'] = events['delay'] + events['dur']
RowEnd(row) == row.delay + row.dur

\* line 354: events.sort_values('end'); for the short tables of the model
\* numpy's sort is an insertion sort, which keeps the order of equal keys
RECURSIVE SortByEnd(_)
SortByEnd(rows) ==
    IF rows = <<>> THEN <<>>
    ELSE LET n == Len(rows)
             head == SortByEnd(SubSeq(rows, 1, n - 1))
             k == Cardinality({j \in DOMAIN head :
                                 RowEnd(head[j]) <= RowEnd(rows[n])})
         IN  SubSeq(head, 1, k) \o <<rows[n]>> \o SubSeq(head, k + 1, n - 1)

\* lines 357-376: `iterations - 1` times, append a copy of the table as it is
\* by then, tagged with the pass number and shifted by the table's end
RECURSIVE RsIterateEvents(_, _, _, _)
RsIterateEvents(ev, n, iters, e_dur) ==
    IF n >= iters - 1 THEN ev
    ELSE LET previous_total_dur == e_dur + ev[Len(ev)].delay + ev[Len(ev)].dur
         IN  RsIterateEvents(
                ev \o [j \in DOMAIN ev |->
                         [ev[j] EXCEPT !.iter = n + 1,
                                       !.delay = @ + previous_total_dur]],
                n + 1, iters, e_dur)

\* metadata[key]: the (delay, value) pairs of the channel, as drawn
RsMetadata(vals, rows) ==
    [key \in DOMAIN vals |->
        LET own == SelectSeq(rows, LAMBDA r : r.channel = key)
        IN  [j \in DOMAIN own |-> <<own[j].delay, own[j].value>>]]

\* RandomSwitchStimulus._create_events from generator state s; with no row
\* at all, events['delay'] raises KeyError
RsCreateEventsFrom(s, vals, total, clip, iters, start, e_dur) ==
    LET g == RsChannels(vals, 1, s, <<>>, total, clip)
    IN  IF g.rows = <<>>
        THEN [error |-> "KeyError", events |-> <<>>, metadata |-> <<>>,
              state |-> g.state]
        ELSE LET shifted == [j \in DOMAIN g.rows |->
                               [g.rows[j] EXCEPT !.delay = @ + start]]
             IN  [error |-> "none",
                  events |-> RsIterateEvents(SortByEnd(shifted), 0, iters,
                                             e_dur),
                  metadata |-> RsMetadata(vals, g.rows),
                  state |-> g.state]

\* lines 387-398: the number of frames
RsTotalFrames(ev, e_dur, per) ==
    CeilDiv(ev[Len(ev)].delay + ev[Len(ev)].dur + e_dur, per)

\* a faulty variant of RsWrite: the whole frame is overwritten
RsWriteRow(sig, tbool, c, value) ==
    [f \in DOMAIN sig |->
        IF (f - 1) \in tbool THEN [k \in DOMAIN sig[f] |-> value] ELSE sig[f]]
\* line 417: signal[tbool, idx] = row['value']
RsWrite(sig, tbool, c, value) ==
    [f \in DOMAIN sig |->
        IF (f - 1) \in tbool THEN [sig[f] EXCEPT ![c] = value] ELSE sig[f]]

RsInit ==
    /\ IdleExceptRs
    /\ np_random = 0
    /\ rs_values \in RsValueTables
    /\ rs_total_dur \in 2 .. MaxTotalDur
    /\ rs_clip_dur \in {2, rs_total_dur}
    /\ rs_iterations \in 1 .. 2
    /\ rs_seed \in Seeds
    /\ rs_period \in 1 .. MaxPeriod
    /\ rs_start_delay \in StartDelays
    /\ rs_end_dur \in EndDurs
    /\ rs_pc = "new"
    /\ rs_events = <<>>
    /\ rs_metadata = <<>>
    /\ rs_signal = <<>>
    /\ rs_index = 0
    /\ rs_error = "none"
    /\ rs_created = <<>>

\* create(): self._events, self._metadata = self._create_events()
RsCreateEvents ==
    /\ rs_pc = "new"
    /\ \E s \in Reseed(rs_seed, np_random) :
          LET r == RsCreateEventsFrom(s, rs_values, rs_total_dur, rs_clip_dur,
                                      rs_iterations, rs_start_delay,
                                      rs_end_dur)
          IN  /\ np_random' = r.state
              /\ rs_events' = r.events
              /\ rs_created' = r.events
              /\ rs_metadata' = r.metadata
              /\ rs_error' = r.error
              /\ rs_pc' = IF r.error = "none" THEN "events" ELSE "raised"
    /\ UNCHANGED exceptRs
    /\ UNCHANGED <<rs_values, rs_total_dur, rs_clip_dur, rs_iterations,
                   rs_seed, rs_period, rs_start_delay, rs_end_dur, rs_signal,
                   rs_index>>

\* _create_signal, lines 387-398: the signal array at the baseline
RsAllocateSignal ==
    /\ rs_pc = "events"
    /\ rs_signal' = [f \in 1 .. RsTotalFrames(rs_events, rs_end_dur, rs_period)
                        |-> RsBaseline(rs_values)]
    /\ rs_index' = 1
    /\ rs_pc' = "loop"
    /\ UNCHANGED exceptRs
    /\ UNCHANGED rngVars
    /\ UNCHANGED <<rs_values, rs_total_dur, rs_clip_dur, rs_iterations,
                   rs_seed, rs_period, rs_start_delay, rs_end_dur, rs_events,
                   rs_metadata, rs_error, rs_created>>

\* _create_signal, lines 405-422: one pass of the loop over the events
RsInsertStep ==
    /\ rs_pc = "loop"
    /\ LET row == rs_events[rs_index]
           tbool == TBool(row, Len(rs_signal), rs_period)
       IN  IF tbool = {}
           THEN /\ rs_error' = "IndexError"
                /\ rs_pc' = "raised"
                /\ UNCHANGED <<rs_events, rs_signal, rs_index>>
           ELSE /\ rs_events' = [rs_events EXCEPT
                                   ![rs_index].delay = SetMin(tbool) * rs_period]
                /\ rs_signal' = RsWrite(rs_signal, tbool, row.channel, row.value)
                /\ rs_index' = rs_index + 1
                /\ rs_pc' = IF rs_index = Len(rs_events) THEN "signal"
                            ELSE "loop"
                /\ UNCHANGED rs_error
    /\ UNCHANGED exceptRs
    /\ UNCHANGED rngVars
    /\ UNCHANGED <<rs_values, rs_total_dur, rs_clip_dur, rs_iterations,
                   rs_seed, rs_period, rs_start_delay, rs_end_dur,
                   rs_metadata, rs_created>>

RsNext ==
    \/ RsCreateEvents
    \/ RsAllocateSignal
    \/ RsInsertStep

SpecRs ==
    /\ RsInit
    /\ [][RsNext]_vars

\* the rows of channel c in the table _create_events returned
RsOwn(c) == SelectSeq(rs_created, LAMBDA r : r.channel = c)

\* C12: with iterations = 1, whenever _create_events returns, every event
\* starts before total_dur (plus start_delay), the last row of the table has
\* delay + duration >= total_dur, and a channel's loop stops at the first
\* draw that makes its cumulative duration reach or exceed total_dur: each of
\* its events starts where the one before ends, and only its last one ends
\* at or after total_dur.
C12_StopsAtTotalDur ==
    (rs_pc # "new" /\ rs_error # "KeyError" /\ rs_iterations = 1) =>
        /\ rs_created # <<>>
        /\ \A j \in DOMAIN rs_created :
              rs_created[j].delay < rs_total_dur + rs_start_delay
        /\ RowEnd(rs_created[Len(rs_created)]) >= rs_total_dur
        /\ \A c \in DOMAIN rs_values :
              LET own == RsOwn(c)
              IN  \A j \in DOMAIN own :
                     /\ j < Len(own) =>
                           /\ RowEnd(own[j]) - rs_start_delay < rs_total_dur
                           /\ own[j + 1].delay = RowEnd(own[j])
                     /\ j = Len(own) =>
                           RowEnd(own[j]) - rs_start_delay >= rs_total_dur

C12_Witness ==
    /\ rs_pc = "events" /\ rs_iterations = 1 /\ Len(rs_values) = 2
    /\ Len(RsOwn(1)) >= 2 /\ Len(RsOwn(2)) >= 2
    /\ RowEnd(rs_created[Len(rs_created)]) > rs_total_dur + rs_start_delay

\* C13: with iterations = 1 the delays of the rows of the event table are
\* non-decreasing in table order, for any number of channels.
C13_DelaysNonDecreasing ==
    (rs_pc # "new" /\ rs_iterations = 1) =>
        \A j \in DOMAIN rs_created :
            j > 1 => rs_created[j - 1].delay <= rs_created[j].delay

\* C13, what the code does: the table is sorted by delay + duration, so the
\* ends of the rows are non-decreasing; the delays are so within a channel.
C13_EndsNonDecreasing ==
    (rs_pc # "new" /\ rs_iterations = 1) =>
        /\ \A j \in DOMAIN rs_created :
              j > 1 => RowEnd(rs_created[j - 1]) <= RowEnd(rs_created[j])
        /\ \A c \in DOMAIN rs_values :
              \A j \in DOMAIN RsOwn(c) :
                 j > 1 => RsOwn(c)[j - 1].delay <= RsOwn(c)[j].delay

C13_Witness ==
    /\ rs_pc = "events" /\ rs_iterations = 1 /\ Len(rs_values) = 2
    /\ \E j \in DOMAIN rs_created :
          j > 1 /\ rs_created[j - 1].delay > rs_created[j].delay

\* the time of frame f (from 0) lies in the interval of the row
RsCovers(row, f) ==
    row.delay <= f * rs_period /\ f * rs_period < row.delay + row.dur

\* C14, one pass: the event processed changes only its channel's column, and
\* only at frames inside its interval
C14_OwnColumnOnly ==
    (rs_pc = "loop" /\ rs_signal' # rs_signal) =>
        /\ Len(rs_signal') = Len(rs_signal)
        /\ \A f \in DOMAIN rs_signal : \A c \in DOMAIN rs_values :
              rs_signal'[f][c] # rs_signal[f][c] =>
                  /\ c = rs_events[rs_index].channel
                  /\ RsCovers(rs_events[rs_index], f - 1)

\* C14, the result: a channel's column is at the baseline wherever no event
\* of the channel covers the frame
C14_BaselineElsewhere ==
    rs_pc = "signal" =>
        \A f \in DOMAIN rs_signal : \A c \in DOMAIN rs_values :
            (\A j \in DOMAIN rs_created :
                rs_created[j].channel = c => ~RsCovers(rs_created[j], f - 1))
                => rs_signal[f][c] = RsBaseline(rs_values)[c]

\* C14: in _create_signal, processing an event of channel c changes only
\* column c of the signal and only at the frames inside the event's interval;
\* so a channel's column is the baseline wherever none of its events covers
\* the frame.
C14_ChannelFrame == [][C14_OwnColumnOnly]_vars /\ [](C14_BaselineElsewhere)

C14_Witness ==
    /\ rs_pc = "signal" /\ Len(rs_values) = 2
    /\ \E f \in DOMAIN rs_signal : rs_signal[f][1] # 0 /\ rs_signal[f][2] = 0
    /\ \E f \in DOMAIN rs_signal : rs_signal[f][2] # 0

(***************************************************************************)
(*        Seeded stimuli: create() run twice with the same options         *)
(***************************************************************************)
\* StepStimulus with randomize=True
SeedStepOptions ==
    {[class |-> "StepStimulus", values |-> << <<1, 2>>, <<3, 4>> >>,
      durs |-> d, repetitions |-> 1, iterations |-> i, start_delay |-> 0,
      total_dur |-> 0, clip_dur |-> 0, end_dur |-> 0] :
        d \in { << <<1, 0>> >>, << <<1, 0>>, <<2, 1>> >> }, i \in 1 .. 2}

SeedRsOptions ==
    {[class |-> "RandomSwitchStimulus", values |-> v, durs |-> <<>>,
      repetitions |-> 0, iterations |-> 1, start_delay |-> 0,
      total_dur |-> 4, clip_dur |-> 2, end_dur |-> e] :
        v \in RsValueTables, e \in EndDurs}

\* lines 143-145: events.sample(frac=1, random_state=self.seed) draws from a
\* generator of its own made from the seed, or from the global generator when
\* the seed is None
SamplePerm(sd, s, n) == IF sd = 0 THEN SeededPerm(s, n) ELSE SeededPerm(sd, n)

\* the event table of one create() run with the global generator at state s:
\* the tables the run can produce, each with the state it leaves
SeedRun(o, sd, s) ==
    IF o.class = "StepStimulus"
    THEN {[events |-> CreateEvents(o.values, o.durs, o.repetitions,
                                   o.iterations, TRUE,
                                   SamplePerm(sd, s, BaseLen(o.values, o.durs,
                                                             o.repetitions)),
                                   o.start_delay),
           error |-> "none",
           state |-> IF sd = 0 THEN NextState(s) ELSE s]}
    ELSE {LET r == RsCreateEventsFrom(s0, o.values, o.total_dur, o.clip_dur,
                                      o.iterations, o.start_delay, o.end_dur)
          IN  [events |-> r.events, error |-> r.error, state |-> r.state] :
              s0 \in Reseed(sd, s)}

SeedInit ==
    /\ IdleExceptSeed
    /\ np_random = 0
    /\ seed_options \in SeedStepOptions \cup SeedRsOptions
    /\ seed_seed \in Seeds
    /\ seed_before = <<>>
    /\ seed_tables = <<>>

\* another operation draws from the global generator
SeedOtherDraw ==
    /\ Len(seed_tables) < 2
    /\ np_random' = NextState(np_random)
    /\ UNCHANGED exceptSeed
    /\ UNCHANGED seedVars

\* a run of create(): self._create_events()
SeedCreate ==
    /\ Len(seed_tables) < 2
    /\ \E r \in SeedRun(seed_options, seed_seed, np_random) :
          /\ seed_tables' = Append(seed_tables,
                                   [events |-> r.events, error |-> r.error])
          /\ np_random' = r.state
    /\ seed_before' = Append(seed_before, np_random)
    /\ UNCHANGED exceptSeed
    /\ UNCHANGED <<seed_options, seed_seed>>

SeedNext == SeedOtherDraw \/ SeedCreate

SpecSeed ==
    /\ SeedInit
    /\ [][SeedNext]_vars

\* C15: two create() runs with the same options and the same seed (not None)
\* produce identical event tables, whatever was drawn from the generator
\* before each run.
C15_SameSeedSameTable ==
    (Len(seed_tables) = 2 /\ seed_seed # 0) => seed_tables[1] = seed_tables[2]

C15_Witness ==
    /\ Len(seed_tables) = 2 /\ seed_seed # 0
    /\ seed_options.class = "RandomSwitchStimulus"
    /\ seed_before[1] # seed_before[2]
    /\ Len(seed_tables[1].events) >= 2

(***************************************************************************)
(*                      MeasuredSpectraMetrics                             *)
(*                                                                         *)
(* Light sources are numbered from 0, as numpy numbers the columns. A      *)
(* matrix is kept with its dtype: the rows of a boolean matrix are         *)
(* sequences of booleans, those of an integer matrix sequences of numbers. *)
(* Captures and metric values are kept as the columns they are computed    *)
(* from.                                                                   *)
(***************************************************************************)
\* itertools.combinations(np.arange(n), k), from element lo on: the
\* increasing k-tuples in lexicographic order
RECURSIVE Combinations(_, _, _)
Combinations(lo, n, k) ==
    IF k = 0 THEN << <<>> >>
    ELSE IF lo >= n THEN <<>>
    ELSE LET rest == Combinations(lo + 1, n, k - 1)
         IN  [j \in DOMAIN rest |-> <<lo>> \o rest[j]]
             \o Combinations(lo + 1, n, k)

\* the dtype of np.array(list(...)): float64 when the list holds no number
IdcsDtype(idcs, k) == IF idcs = <<>> \/ k = 0 THEN "float" ELSE "int"

\* MeasuredSpectraMetrics._get_source_idcs(n, k): indexing with a float array
\* raises IndexError, also when the array is empty
GetSourceIdcs(n, k) ==
    LET idcs == Combinations(0, n, k)
    IN  IF IdcsDtype(idcs, k) # "int"
        THEN [error |-> "IndexError", dtype |-> "none", rows |-> <<>>]
        ELSE [error |-> "none", dtype |-> "bool",
              rows |-> [i \in DOMAIN idcs |->
                          [c \in 1 .. n |-> (c - 1) \in Range(idcs[i])]]]

\* np.vstack of the results for the numbers of a list; an error ends the loop
RECURSIVE VStackSourceIdcs(_, _, _)
VStackSourceIdcs(n, ks, i) ==
    IF i > Len(ks) THEN [error |-> "none", dtype |-> "bool", rows |-> <<>>]
    ELSE LET one == GetSourceIdcs(n, ks[i])
             more == VStackSourceIdcs(n, ks, i + 1)
         IN  IF one.error # "none" THEN one
             ELSE IF more.error # "none" THEN more
             ELSE [error |-> "none", dtype |-> "bool",
                   rows |-> one.rows \o more.rows]

\* line 130: asarray(self.combos).astype(int), of a boolean matrix
AsInt(rows) ==
    [error |-> "none", dtype |-> "int",
     rows |-> [i \in DOMAIN rows |->
                 [c \in DOMAIN rows[i] |-> IF rows[i][c] THEN 1 ELSE 0]]]

\* __init__, lines 124-148: self.source_idcs from combos
SourceIdcsOf(n, combos) ==
    IF combos.kind = "numeric" THEN GetSourceIdcs(n, combos.k)
    ELSE IF combos.kind = "list" THEN VStackSourceIdcs(n, combos.ks, 1)
    ELSE AsInt(combos.rows)

\* the positions of the TRUE entries of a row, increasing
RECURSIVE TruePositions(_, _)
TruePositions(row, c) ==
    IF c > Len(row) THEN <<>>
    ELSE (IF row[c] THEN <<c - 1>> ELSE <<>>) \o TruePositions(row, c + 1)

\* the columns x[:, source_idx] takes, in order: those a boolean index marks,
\* or those an integer index lists
Columns(dtype, row) ==
    IF dtype = "bool" THEN TruePositions(row, 1)
    ELSE [c \in DOMAIN row |-> row[c]]

\* an integer index beyond the last column raises IndexError
InRange(dtype, row, n) ==
    dtype = "bool" \/ \A c \in DOMAIN row : row[c] < n

\* get_captures(source_idx): random_samples[:, source_idx] @ A[:, source_idx].T,
\* as the columns of random_samples and of A that enter the product
GetCaptures(dtype, row, n) ==
    IF InRange(dtype, row, n)
    THEN [error |-> "none", samples |-> Columns(dtype, row),
          A |-> Columns(dtype, row)]
    ELSE [error |-> "IndexError", samples |-> <<>>, A |-> <<>>]

\* lines 179-181: names[source_idx], the names joined by '+'
LightCombos(dtype, row) == Columns(dtype, row)

\* np.sum(source_idx)
RECURSIVE SumRow(_, _, _)
SumRow(dtype, row, c) ==
    IF c > Len(row) THEN 0
    ELSE (IF dtype = "bool" THEN (IF row[c] THEN 1 ELSE 0) ELSE row[c])
         + SumRow(dtype, row, c + 1)

\* metric_func(source_idx, ...): a value computed from the captures
MetricOf(dtype, row, n) == [metric_of |-> GetCaptures(dtype, row, n)]

\* _get_metrics.helper(B), lines 166-192, normalize=False
MetricsHelper(idcs, as_frame, n) ==
    IF \E i \in DOMAIN idcs.rows : ~InRange(idcs.dtype, idcs.rows[i], n)
    THEN [error |-> "IndexError", metrics |-> <<>>]
    ELSE IF as_frame
    THEN [error |-> "none",
          metrics |->
            [i \in DOMAIN idcs.rows |->
               [membership |-> idcs.rows[i],
                metric |-> MetricOf(idcs.dtype, idcs.rows[i], n),
                light_combos |-> LightCombos(idcs.dtype, idcs.rows[i]),
                k |-> SumRow(idcs.dtype, idcs.rows[i], 1)]]]
    ELSE [error |-> "none",
          metrics |-> [i \in DOMAIN idcs.rows |->
                         MetricOf(idcs.dtype, idcs.rows[i], n)]]

\* the names of a mapping B; {} when B is not a mapping
Transformations == {{}, {"lms"}, {"lms", "opponent"}}

\* line 209: metrics['transformation'] = B_name, on a frame or on an array
SetTransformation(as_frame) == IF as_frame THEN "none" ELSE "IndexError"

\* _get_metrics, lines 194-210
GetMetrics(idcs, as_frame, B, n) ==
    LET h == MetricsHelper(idcs, as_frame, n)
    IN  IF h.error # "none"
        THEN [outcome |-> h.error, value |-> <<>>]
        ELSE IF B # {}
        THEN [outcome |-> IF as_frame THEN "frame" ELSE "mapping",
              value |-> [t \in B |-> h.metrics]]
        ELSE IF SetTransformation(as_frame) # "none"
        THEN [outcome |-> SetTransformation(as_frame), value |-> <<>>]
        ELSE [outcome |-> IF as_frame THEN "frame" ELSE "array",
              value |-> h.metrics]

BoolRows(n) == [1 .. n -> BOOLEAN]
CombosGiven(n) ==
    {[kind |-> "numeric", k |-> k, ks |-> <<>>, rows |-> <<>>] :
        k \in 0 .. (n + 1)}
    \cup {[kind |-> "list", k |-> 0, ks |-> ks, rows |-> <<>>] :
        ks \in {<<1>>, <<1, 2>>, <<0, 1>>}}
    \cup {[kind |-> "matrix", k |-> 0, ks |-> <<>>, rows |-> <<r>>] :
        r \in BoolRows(n)}
    \cup {[kind |-> "matrix", k |-> 0, ks |-> <<>>, rows |-> <<r, q>>] :
        r \in BoolRows(n), q \in BoolRows(n)}

MetInit ==
    /\ IdleExceptMet
    /\ met_n_sources \in 1 .. MaxSources
    /\ met_combos \in CombosGiven(met_n_sources)
    /\ met_pc = "new"
    /\ met_source_idcs = NoMatrix
    /\ met_error = "none"
    /\ met_last = NoMetCall

\* MeasuredSpectraMetrics.__init__
MetConstruct ==
    /\ met_pc = "new"
    /\ LET r == SourceIdcsOf(met_n_sources, met_combos)
       IN  /\ met_error' = r.error
           /\ met_source_idcs' = [dtype |-> r.dtype, rows |-> r.rows]
           /\ met_pc' = IF r.error = "none" THEN "ready" ELSE "raised"
    /\ UNCHANGED exceptMet
    /\ UNCHANGED <<met_n_sources, met_combos, met_last>>

\* get_captures(self.source_idcs[i])
MetGetCaptures(i) ==
    /\ met_pc = "ready"
    /\ i \in DOMAIN met_source_idcs.rows
    /\ met_last' = [op |-> "get_captures", row |-> i,
                    result |-> GetCaptures(met_source_idcs.dtype,
                                           met_source_idcs.rows[i],
                                           met_n_sources)]
    /\ UNCHANGED exceptMet
    /\ UNCHANGED <<met_n_sources, met_combos, met_pc, met_source_idcs,
                   met_error>>

\* get_capture_metrics / get_excitation_metrics (any B) and compute_gamuts
\* (B is None): self._get_metrics(...)
MetGetMetrics(method, as_frame, B) ==
    /\ met_pc = "ready"
    /\ method = "compute_gamuts" => B = {}
    /\ met_last' = [op |-> method, as_frame |-> as_frame, B |-> B,
                    result |-> GetMetrics(met_source_idcs, as_frame, B,
                                          met_n_sources)]
    /\ UNCHANGED exceptMet
    /\ UNCHANGED <<met_n_sources, met_combos, met_pc, met_source_idcs,
                   met_error>>

MetricsMethods ==
    {"get_capture_metrics", "get_excitation_metrics", "compute_gamuts"}

MetNext ==
    \/ MetConstruct
    \/ \E i \in 1 .. (MaxSources * MaxSources) : MetGetCaptures(i)
    \/ \E method \in MetricsMethods, as_frame \in BOOLEAN,
          B \in Transformations : MetGetMetrics(method, as_frame, B)

SpecMetrics ==
    /\ MetInit
    /\ [][MetNext]_vars

\* the binomial coefficient C(n, k); 0 when k > n
RECURSIVE Binomial(_, _)
Binomial(n, k) ==
    IF k = 0 THEN 1
    ELSE IF n = 0 THEN 0
    ELSE Binomial(n - 1, k - 1) + Binomial(n - 1, k)

\* the matrix has n columns, C(n, k) rows (none when k > n), k TRUE entries
\* in every row and no two equal rows
WellFormedIdcs(m, n, k) ==
    /\ m.dtype = "bool"
    /\ Len(m.rows) = Binomial(n, k)
    /\ \A i \in DOMAIN m.rows :
          /\ Len(m.rows[i]) = n
          /\ Cardinality({c \in 1 .. n : m.rows[i][c]}) = k
    /\ \A i, j \in DOMAIN m.rows : m.rows[i] = m.rows[j] => i = j

\* C16: for all 0 <= k <= n, _get_source_idcs(n, k) returns a boolean matrix
\* with n columns and C(n, k) rows, k TRUE entries in every row and no two rows
\* equal; for k > n it returns a matrix with no row.
C16_SourceIdcs ==
    (met_pc # "new" /\ met_combos.kind = "numeric") =>
        /\ met_error = "none"
        /\ WellFormedIdcs(met_source_idcs, met_n_sources, met_combos.k)

\* C16, what the code does: the matrix is as described for 1 <= k <= n; for
\* k = 0 and for k > n the index array is a float array and the call raises
\* IndexError.
C16_SourceIdcsForPositiveK ==
    (met_pc # "new" /\ met_combos.kind = "numeric") =>
        IF 1 <= met_combos.k /\ met_combos.k <= met_n_sources
        THEN /\ met_error = "none"
             /\ WellFormedIdcs(met_source_idcs, met_n_sources, met_combos.k)
        ELSE met_error = "IndexError"

C16_Witness ==
    /\ met_pc = "raised" /\ met_combos.kind = "numeric" /\ met_combos.k = 0
    /\ met_n_sources = 3 /\ met_error = "IndexError"

\* C17: with combos given as a boolean membership matrix, get_captures on a
\* stored row uses exactly the columns of the samples and of A that the
\* caller's row marks TRUE, each once, and the row's light_combos label joins
\* exactly those sources' names.
C17_MatrixRowsSelectMarked ==
    met_combos.kind = "matrix" =>
        /\ met_last.op = "get_captures" =>
              LET marked == TruePositions(met_combos.rows[met_last.row], 1)
              IN  /\ met_last.result.error = "none"
                  /\ met_last.result.samples = marked
                  /\ met_last.result.A = marked
        /\ (met_last.op \in MetricsMethods /\ met_last.as_frame
            /\ met_last.B = {}) =>
              /\ met_last.result.outcome = "frame"
              /\ \A i \in DOMAIN met_combos.rows :
                    met_last.result.value[i].light_combos =
                        TruePositions(met_combos.rows[i], 1)

\* C17, what the code does: the matrix is stored as integers, so a row is
\* used as a list of column numbers: column 1 for every TRUE entry and
\* column 0 for every FALSE entry, in the order of the row.
C17_MatrixRowsIndexColumns ==
    (met_combos.kind = "matrix" /\ met_last.op = "get_captures"
     /\ met_last.result.error = "none") =>
        met_last.result.samples =
            [c \in 1 .. met_n_sources |->
                IF met_combos.rows[met_last.row][c] THEN 1 ELSE 0]

C17_Witness ==
    /\ met_combos.kind = "matrix" /\ met_last.op = "get_captures"
    /\ met_combos.rows[met_last.row] = <<TRUE, FALSE, TRUE>>
    /\ met_last.result.samples = <<1, 0, 1>>

\* C18: get_capture_metrics / get_excitation_metrics / compute_gamuts with
\* as_frame=False return, without error, an array with one value per row of
\* the subset matrix when B is not a mapping, and a mapping from
\* transformation name to such an array when B is a mapping.
C18_RawResults ==
    (met_last.op \in MetricsMethods /\ ~met_last.as_frame) =>
        IF met_last.B = {}
        THEN /\ met_last.result.outcome = "array"
             /\ Len(met_last.result.value) = Len(met_source_idcs.rows)
        ELSE /\ met_last.result.outcome = "mapping"
             /\ DOMAIN met_last.result.value = met_last.B
             /\ \A t \in met_last.B :
                   Len(met_last.result.value[t]) = Len(met_source_idcs.rows)

\* C18, what the code does: with a B that is not a mapping the array is
\* indexed with 'transformation' and the call raises IndexError.
C18_RawArrayRaises ==
    (met_last.op \in MetricsMethods /\ ~met_last.as_frame
     /\ met_last.B = {}) => met_last.result.outcome = "IndexError"

C18_Witness ==
    /\ met_last.op = "get_capture_metrics" /\ ~met_last.as_frame
    /\ met_last.B = {} /\ met_combos.kind = "numeric"
    /\ Len(met_source_idcs.rows) >= 2
    /\ met_last.result.outcome = "IndexError"

(***************************************************************************)
(*              SetBaselineMixin, SetStepMixin, SetRandomStepMixin         *)
(*                                                                         *)
(* A mapping channel -> list is a sequence of lists, in the order of the   *)
(* mapping's keys; every list has at least one element. A probability is   *)
(* an exact fraction <<numerator, denominator>>.                           *)
(***************************************************************************)
\* baseline_values as given: a number, or a list
Numeric(v) == [numeric |-> TRUE, value |-> v, list |-> <<>>]
Listed(l) == [numeric |-> FALSE, value |-> 0, list |-> l]

\* SetBaselineMixin._set_baseline_values(baseline_values, channel_names), for
\* n channel names
SetBaselineValues(b, n) ==
    IF b.numeric
    THEN [error |-> "none", baseline |-> [c \in 1 .. n |-> b.value]]
    ELSE IF Len(b.list) # n
    THEN [error |-> "AssertionError", baseline |-> <<>>]
    ELSE [error |-> "none", baseline |-> b.list]

\* a faulty variant of SeparateRows: the other channels are left at 0
SeparateRowsAtZero(ele, index, baseline) ==
    [j \in DOMAIN ele |->
        [c \in DOMAIN baseline |-> IF c = index THEN ele[j] ELSE 0]]
\* lines 54-58: len(ele) copies of the baseline, column `index` set to ele
SeparateRows(ele, index, baseline) ==
    [j \in DOMAIN ele |-> [baseline EXCEPT ![index] = ele[j]]]

\* lines 52-59: the rows of the channels, one channel after the other
RECURSIVE SeparateChannels(_, _, _)
SeparateChannels(vals, index, baseline) ==
    IF index > Len(vals) THEN <<>>
    ELSE SeparateRows(vals[index], index, baseline)
         \o SeparateChannels(vals, index + 1, baseline)

\* line 61: list(itertools.product(*values.values())), from channel c on: the
\* last channel varies fastest
RECURSIVE Product(_, _)
Product(vals, c) ==
    IF c > Len(vals) THEN << <<>> >>
    ELSE LET rest == Product(vals, c + 1)
             m == Len(rest)
         IN  [k \in 1 .. (Len(vals[c]) * m) |->
                <<vals[c][((k - 1) \div m) + 1]>> \o rest[((k - 1) % m) + 1]]

\* SetStepMixin._set_values(values, baseline_values, separate_channels) on a
\* mapping
StepSetValues(vals, b, separate_channels) ==
    LET bl == SetBaselineValues(b, Len(vals))
    IN  IF bl.error # "none"
        THEN [error |-> bl.error, values |-> <<>>, columns |-> 0,
              baseline |-> <<>>]
        ELSE [error |-> "none",
              values |-> IF separate_channels
                         THEN SeparateChannels(vals, 1, bl.baseline)
                         ELSE Product(vals, 1),
              columns |-> Len(vals),
              baseline |-> bl.baseline]

RECURSIVE SumSeq(_, _)
SumSeq(w, i) == IF i = 0 THEN 0 ELSE w[i] + SumSeq(w, i - 1)

\* a faulty variant of Normalized: the weights are not divided by their sum
NotNormalized(w) == [j \in DOMAIN w |-> <<w[j], 1>>]
\* line 105: values_prob / np.sum(values_prob)
Normalized(w) == [j \in DOMAIN w |-> <<w[j], SumSeq(w, Len(w))>>]

\* line 102: np.ones(len(ele)) / len(ele)
UniformProbs(n) == [j \in 1 .. n |-> <<1, n>>]

\* lines 96-108: the loop over the channels; a weight list of another length
\* than the channel's values fails the assertion
RECURSIVE RandomChannelProbs(_, _, _)
RandomChannelProbs(vals, probs, c) ==
    IF c > Len(vals) THEN [error |-> "none", probs |-> <<>>]
    ELSE IF probs[c] # <<>> /\ Len(probs[c]) # Len(vals[c])
    THEN [error |-> "AssertionError", probs |-> <<>>]
    ELSE LET more == RandomChannelProbs(vals, probs, c + 1)
             own == IF probs[c] = <<>> THEN UniformProbs(Len(vals[c]))
                    ELSE Normalized(probs[c])
         IN  IF more.error # "none" THEN more
             ELSE [error |-> "none", probs |-> <<own>> \o more.probs]

\* the value lists have different lengths
Ragged(vals) == \E c, d \in DOMAIN vals : Len(vals[c]) # Len(vals[d])

\* SetRandomStepMixin._set_values(values, baseline_values, values_probs) on a
\* mapping; channel_names = np.array(list(values.values())) has one entry per
\* channel, or raises ValueError for lists of different lengths when numpy
\* refuses to build a ragged array
RandomSetValues(vals, b, probs, ragged) ==
    IF Ragged(vals) /\ ragged = "ValueError"
    THEN [error |-> "ValueError", values_probs |-> <<>>, baseline |-> <<>>]
    ELSE LET p == RandomChannelProbs(vals, probs, 1)
             bl == SetBaselineValues(b, Len(vals))
         IN  IF p.error # "none"
             THEN [error |-> p.error, values_probs |-> <<>>, baseline |-> <<>>]
             ELSE IF bl.error # "none"
             THEN [error |-> bl.error, values_probs |-> <<>>,
                   baseline |-> <<>>]
             ELSE [error |-> "none", values_probs |-> p.probs,
                   baseline |-> bl.baseline]

CandidateLists == {<<1>>, <<1, 2>>, <<2, 2>>, <<0, 1, 2>>}
WeightLists == {<<>>, <<1>>, <<1, 3>>, <<2, 0>>, <<1, 1, 2>>}
BaselinesGiven ==
    {Numeric(0), Numeric(5)}
    \cup {Listed(l) : l \in UNION {[1 .. n -> {0, 5}] : n \in 1 .. MaxChannels}}

MixInit ==
    /\ IdleExceptMix
    /\ mix_class \in {"SetStepMixin", "SetRandomStepMixin"}
    /\ \E n \in 1 .. MaxChannels :
          /\ mix_values \in [1 .. n -> CandidateLists]
          /\ mix_probs \in IF mix_class = "SetStepMixin"
                           THEN {[c \in 1 .. n |-> <<>>]}
                           ELSE [1 .. n -> WeightLists]
    /\ mix_baseline \in BaselinesGiven
    /\ mix_separate \in IF mix_class = "SetStepMixin" THEN BOOLEAN
                        ELSE {FALSE}
    /\ mix_ragged \in IF mix_class = "SetRandomStepMixin" /\ Ragged(mix_values)
                      THEN {"object", "ValueError"} ELSE {"none"}
    /\ mix_pc = "call"
    /\ mix_result = NoResult

\* SetStepMixin._set_values(values, baseline_values, separate_channels)
MixStepSetValues ==
    /\ mix_pc = "call" /\ mix_class = "SetStepMixin"
    /\ mix_result' = StepSetValues(mix_values, mix_baseline, mix_separate)
    /\ mix_pc' = "done"
    /\ UNCHANGED exceptMix
    /\ UNCHANGED <<mix_class, mix_values, mix_baseline, mix_separate,
                   mix_probs, mix_ragged>>

\* SetRandomStepMixin._set_values(values, baseline_values, values_probs)
MixRandomSetValues ==
    /\ mix_pc = "call" /\ mix_class = "SetRandomStepMixin"
    /\ mix_result' = RandomSetValues(mix_values, mix_baseline, mix_probs,
                                     mix_ragged)
    /\ mix_pc' = "done"
    /\ UNCHANGED exceptMix
    /\ UNCHANGED <<mix_class, mix_values, mix_baseline, mix_separate,
                   mix_probs, mix_ragged>>

MixNext == MixStepSetValues \/ MixRandomSetValues

SpecMixin ==
    /\ MixInit
    /\ [][MixNext]_vars

\* the baseline a call is made with, one entry per channel
BaselineGiven(b, n) == IF b.numeric THEN [c \in 1 .. n |-> b.value] ELSE b.list

\* the number of candidates of the channels 1 .. c, and the number of their
\* combinations
RECURSIVE SumLen(_, _)
SumLen(vals, c) == IF c = 0 THEN 0 ELSE Len(vals[c]) + SumLen(vals, c - 1)
RECURSIVE ProdLen(_, _)
ProdLen(vals, c) == IF c = 0 THEN 1 ELSE Len(vals[c]) * ProdLen(vals, c - 1)

Distinct(l) == \A i, j \in DOMAIN l : l[i] = l[j] => i = j

\* C19: SetStepMixin._set_values on a mapping returns a table with one
\* column per channel. With separate_channels it has sum of len(candidates)
\* rows, and the row for (channel c, candidate v) holds v in column c and the
\* baseline in every other column. Otherwise it has product of
\* len(candidates) rows, its rows are exactly the elements of the Cartesian
\* product of the candidate lists, and no row repeats when the candidates of
\* every channel are distinct.
C19_SetValuesTable ==
    (mix_pc = "done" /\ mix_class = "SetStepMixin"
     /\ mix_result.error = "none") =>
        LET n == Len(mix_values)
            rows == mix_result.values
            base == BaselineGiven(mix_baseline, n)
        IN  /\ mix_result.columns = n
            /\ \A k \in DOMAIN rows : Len(rows[k]) = n
            /\ IF mix_separate
               THEN /\ Len(rows) = SumLen(mix_values, n)
                    /\ \A c \in 1 .. n : \A j \in DOMAIN mix_values[c] :
                          LET row == rows[SumLen(mix_values, c - 1) + j]
                          IN  /\ row[c] = mix_values[c][j]
                              /\ \A d \in (1 .. n) \ {c} : row[d] = base[d]
               ELSE /\ Len(rows) = ProdLen(mix_values, n)
                    /\ \A k \in DOMAIN rows : \A c \in 1 .. n :
                          \E j \in DOMAIN mix_values[c] :
                             rows[k][c] = mix_values[c][j]
                    /\ \A pick \in [1 .. n -> 1 .. 3] :
                          (\A c \in 1 .. n : pick[c] \in DOMAIN mix_values[c])
                          => \E k \in DOMAIN rows : \A c \in 1 .. n :
                                rows[k][c] = mix_values[c][pick[c]]
                    /\ (\A c \in 1 .. n : Distinct(mix_values[c]))
                       => Distinct(rows)

C19_Witness ==
    /\ mix_pc = "done" /\ mix_class = "SetStepMixin"
    /\ mix_result.error = "none"
    /\ mix_values = << <<1, 2>>, <<0, 1, 2>> >>
    /\ mix_baseline = Listed(<<5, 0>>)
    /\ mix_separate
    /\ mix_result.values =
          << <<1, 0>>, <<2, 0>>, <<5, 0>>, <<5, 1>>, <<5, 2>> >>

\* every given weight list has the length of its channel's value list
WeightsMatch(vals, probs) ==
    \A c \in DOMAIN vals : probs[c] = <<>> \/ Len(probs[c]) = Len(vals[c])

\* the baseline is a number or has one entry per channel
BaselineFits(b, n) == b.numeric \/ Len(b.list) = n

\* a vector of fractions over one denominator whose numerators add up to it
RECURSIVE SumNum(_, _)
SumNum(p, i) == IF i = 0 THEN 0 ELSE p[i][1] + SumNum(p, i - 1)
SumsToOne(p) ==
    /\ \A j \in DOMAIN p : p[j][2] = p[1][2] /\ p[j][2] > 0
    /\ SumNum(p, Len(p)) = p[1][2]

\* the vectors the call returned are the ones described: for every channel
\* as long as the value list, summing to 1, uniform without given weights
\* and the weights over their sum otherwise; the baseline has one entry per
\* channel
ProbabilityVectors ==
    LET n == Len(mix_values)
        p == mix_result.values_probs
    IN  /\ Len(p) = n
        /\ \A c \in 1 .. n :
              /\ Len(p[c]) = Len(mix_values[c])
              /\ SumsToOne(p[c])
              /\ \A j \in DOMAIN p[c] :
                    IF mix_probs[c] = <<>>
                    THEN p[c][j] = <<1, Len(mix_values[c])>>
                    ELSE p[c][j] = <<mix_probs[c][j],
                                     SumSeq(mix_probs[c], Len(mix_probs[c]))>>
        /\ Len(mix_result.baseline) = n

\* C20: SetRandomStepMixin._set_values on a mapping returns, for every
\* channel, a probability vector as long as the channel's value list that
\* sums to 1 (uniform when no weights were given for the channel, the given
\* weights divided by their sum otherwise) and a baseline with one entry per
\* channel; a weight list whose length differs from its value list is
\* rejected with an invalid-input error.
C20_ProbabilityVectors ==
    (mix_pc = "done" /\ mix_class = "SetRandomStepMixin") =>
        /\ ~WeightsMatch(mix_values, mix_probs)
           => mix_result.error \in {"AssertionError", "ValueError"}
        /\ (WeightsMatch(mix_values, mix_probs)
            /\ BaselineFits(mix_baseline, Len(mix_values)))
           => (mix_result.error = "none" /\ ProbabilityVectors)

\* C20, what the code does: whenever the call returns, the vectors and the
\* baseline are as described, and a weight list of another length is always
\* rejected; but value lists of different lengths make the call raise
\* ValueError where numpy refuses to build a ragged array, whatever the
\* weights.
C20_VectorsWhenReturned ==
    (mix_pc = "done" /\ mix_class = "SetRandomStepMixin") =>
        /\ mix_result.error = "none" => ProbabilityVectors
        /\ ~WeightsMatch(mix_values, mix_probs) => mix_result.error # "none"
        /\ (Ragged(mix_values) /\ mix_ragged = "ValueError")
           => mix_result.error = "ValueError"
        /\ (WeightsMatch(mix_values, mix_probs)
            /\ BaselineFits(mix_baseline, Len(mix_values))
            /\ mix_ragged # "ValueError")
           => mix_result.error = "none"

C20_Witness ==
    /\ mix_pc = "done" /\ mix_class = "SetRandomStepMixin"
    /\ mix_values = << <<1, 2>>, <<0, 1, 2>> >>
    /\ mix_probs = << <<1, 3>>, <<>> >>
    /\ mix_baseline = Numeric(0)
    /\ mix_ragged = "ValueError"
    /\ mix_result.error = "ValueError"

\* the same call where numpy builds an array of lists
C20_WitnessReturned ==
    /\ mix_pc = "done" /\ mix_class = "SetRandomStepMixin"
    /\ mix_values = << <<1, 2>>, <<0, 1, 2>> >>
    /\ mix_probs = << <<1, 3>>, <<>> >>
    /\ mix_ragged = "object"
    /\ mix_result.error = "none"
    /\ mix_result.values_probs =
          << << <<1, 4>>, <<3, 4>> >>, << <<1, 3>>, <<1, 3>>, <<1, 3>> >> >>

(***************************************************************************)
(*                        DependentExcitationFit                           *)
(*                                                                         *)
(* Light sources are numbered from 1. A capture table is a sequence of     *)
(* rows, one per sample, each row holding one capture per photoreceptor.   *)
(* An array is a sequence of rows; a row of a fitted array is named by the *)
(* capture row it was obtained for, a row of layer_intensities by its      *)
(* light source. The stored bounds and bg_ints_ are named, not valued.     *)
(***************************************************************************)
\* lines 57-72: the layers _fit resolves for n light sources
\* a faulty variant of ResolveLayers: with only independent_layers every layer
\* lists one source
ResolveLayersOwnOnly(n, independent_layers, layer_assignments) ==
    IF independent_layers = None /\ layer_assignments = None
    THEN [error |-> "none", count |-> n,
          assignments |-> [i \in 1 .. n |-> <<i>>]]
    ELSE IF independent_layers = None
    THEN [error |-> "none", count |-> Len(Value(layer_assignments)),
          assignments |-> Value(layer_assignments)]
    ELSE IF layer_assignments = None
    THEN [error |-> "none", count |-> Value(independent_layers),
          assignments |-> [l \in 1 .. Value(independent_layers) |-> <<1>>]]
    ELSE IF Len(Value(layer_assignments)) # Value(independent_layers)
    THEN [error |-> "AssertionError", count |-> 0, assignments |-> <<>>]
    ELSE [error |-> "none", count |-> Value(independent_layers),
          assignments |-> Value(layer_assignments)]
ResolveLayers(n, independent_layers, layer_assignments) ==
    IF independent_layers = None /\ layer_assignments = None
    THEN [error |-> "none", count |-> n,
          assignments |-> [i \in 1 .. n |-> <<i>>]]
    ELSE IF independent_layers = None
    THEN [error |-> "none", count |-> Len(Value(layer_assignments)),
          assignments |-> Value(layer_assignments)]
    ELSE IF layer_assignments = None
    THEN [error |-> "none", count |-> Value(independent_layers),
          assignments |-> [l \in 1 .. Value(independent_layers) |->
                             [i \in 1 .. n |-> i]]]
    ELSE IF Len(Value(layer_assignments)) # Value(independent_layers)
    THEN [error |-> "AssertionError", count |-> 0, assignments |-> <<>>]
    ELSE [error |-> "none", count |-> Value(independent_layers),
          assignments |-> Value(layer_assignments)]

\* np.all(capture_x >= border), np.all(capture_x <= border)
AllAtOrAbove(capture_x, border) ==
    \A i \in DOMAIN capture_x : \A j \in DOMAIN capture_x[i] :
        capture_x[i][j] >= border
AllAtOrBelow(capture_x, border) ==
    \A i \in DOMAIN capture_x : \A j \in DOMAIN capture_x[i] :
        capture_x[i][j] <= border

\* a faulty variant of FitBounds: both bounds are pinned to bg_ints_
FitBoundsBoth(stored, unidirectional, capture_x, border) ==
    IF unidirectional /\ (AllAtOrAbove(capture_x, border)
                          \/ AllAtOrBelow(capture_x, border))
    THEN <<"bg_ints_", "bg_ints_">> ELSE stored
\* lines 124-131: bounds, a copy of intensity_bounds_ with at most one entry
\* replaced
FitBounds(stored, unidirectional, capture_x, border) ==
    IF unidirectional
    THEN IF AllAtOrAbove(capture_x, border)
         THEN [stored EXCEPT ![1] = "bg_ints_"]
         ELSE IF AllAtOrBelow(capture_x, border)
         THEN [stored EXCEPT ![2] = "bg_ints_"]
         ELSE stored
    ELSE stored

\* the order np.unique(axis=0) sorts rows in
RECURSIVE RowLessFrom(_, _, _)
RowLessFrom(a, b, j) ==
    IF j > Len(a) THEN FALSE
    ELSE IF a[j] # b[j] THEN a[j] < b[j]
    ELSE RowLessFrom(a, b, j + 1)
RowLess(a, b) == RowLessFrom(a, b, 1)

\* lines 80-82: the distinct rows in sorted order; xidcs, the first sample
\* holding each of them; xinverse, for each sample the number of its
\* distinct row
RECURSIVE SortedRows(_)
SortedRows(S) ==
    IF S = {} THEN <<>>
    ELSE LET least == CHOOSE r \in S : \A q \in S \ {r} : RowLess(r, q)
         IN  <<least>> \o SortedRows(S \ {least})
UniqueRows(capture_X) == SortedRows({capture_X[i] : i \in DOMAIN capture_X})
XIdcs(capture_X) ==
    [u \in DOMAIN UniqueRows(capture_X) |->
        CHOOSE i \in DOMAIN capture_X :
            /\ capture_X[i] = UniqueRows(capture_X)[u]
            /\ \A k \in DOMAIN capture_X : capture_X[k] = UniqueRows(capture_X)[u] => i <= k]
XInverse(capture_X) ==
    [i \in DOMAIN capture_X |->
        CHOOSE u \in DOMAIN UniqueRows(capture_X) : UniqueRows(capture_X)[u] = capture_X[i]]

\* lines 111-118 and 104-108: _reformat_intensities fails when called without
\* pixel_strength, because _format_intensities hands back the None it was
\* given and None @ ws.T is no product
ReformatIntensities(pixel_strength) ==
    IF pixel_strength = None THEN "raised" ELSE "none"

\* lines 120-181: _fit_sample as written computes bounds and then, on line
\* 158, calls _reformat_intensities(p0) without pixel_strength
FitSampleAsWritten(capture_x) ==
    [error |-> ReformatIntensities(None), fitted_intensities |-> <<>>,
     layer_intensities |-> <<>>, pixel_strength |-> <<>>]

\* lines 93 and 105-107: a _fit_sample that returns the arrays its comments
\* document, for n light sources: fitted_intensities and pixel_strength with
\* one row per row of capture_x, layer_intensities with one row per source
FitSampleAsDocumented(capture_x, n) ==
    [error |-> "none", fitted_intensities |-> capture_x,
     layer_intensities |-> [s \in 1 .. n |-> s],
     pixel_strength |-> capture_x]

FitSample(how, capture_x, n) ==
    IF how = "written" THEN FitSampleAsWritten(capture_x)
    ELSE FitSampleAsDocumented(capture_x, n)

\* array[index] for a sequence of row numbers: IndexError when one of them
\* is beyond the array
Take(array, index) ==
    IF \E i \in DOMAIN index : index[i] > Len(array)
    THEN [error |-> "IndexError", rows |-> <<>>]
    ELSE [error |-> "none", rows |-> [i \in DOMAIN index |-> array[index[i]]]]

\* lines 78-91: the three arrays _fit holds after _fit_sample
FitArrays(how, capture_X, n, fit_only_uniques) ==
    IF fit_only_uniques
    THEN LET r == FitSample(how, [u \in DOMAIN XIdcs(capture_X) |-> capture_X[XIdcs(capture_X)[u]]], n)
             fi == Take(r.fitted_intensities, XInverse(capture_X))
             li == Take(r.layer_intensities, XInverse(capture_X))
         IN  IF r.error # "none" THEN r
             ELSE IF fi.error # "none"
             THEN [r EXCEPT !.error = fi.error]
             ELSE IF li.error # "none"
             THEN [r EXCEPT !.error = li.error]
             ELSE [error |-> "none", fitted_intensities |-> fi.rows,
                   layer_intensities |-> li.rows,
                   pixel_strength |-> r.pixel_strength]
    ELSE FitSample(how, capture_X, n)

NotFitted ==
    [error |-> "none", fitted_intensities |-> <<>>,
     layer_intensities |-> <<>>, pixel_strength |-> <<>>]

CaptureRows == {<<0, 1>>, <<1, 1>>, <<1, 2>>, <<2, 0>>}
CaptureTables == UNION {[1 .. m -> CaptureRows] : m \in 1 .. 3}
LayerAssignmentsGiven(n) ==
    {None} \cup {Given(a) : a \in UNION {[1 .. l -> {<<1>>, <<n>>, <<1, n>>}] :
                                         l \in 1 .. 2}}

DepInit ==
    /\ IdleExceptDep
    /\ dep_n_sources \in 1 .. MaxSources
    /\ dep_independent_layers \in {None, Given(1), Given(2)}
    /\ dep_layer_assignments \in LayerAssignmentsGiven(dep_n_sources)
    /\ dep_unidirectional \in BOOLEAN
    /\ dep_fit_only_uniques \in BOOLEAN
    /\ dep_capture_X \in CaptureTables
    /\ dep_fit_sample \in {"written", "documented"}
    /\ dep_intensity_bounds = <<"lower", "upper">>
    /\ dep_pc = "fit"
    /\ dep_layers = NoLayers
    /\ dep_bounds = <<>>
    /\ dep_local = NotFitted
    /\ dep_fitted = NotFitted

\* _fit, lines 57-72
DepResolveLayers ==
    /\ dep_pc = "fit"
    /\ dep_layers' = ResolveLayers(dep_n_sources, dep_independent_layers,
                                   dep_layer_assignments)
    /\ dep_pc' = IF dep_layers'.error = "none" THEN "layers" ELSE "done"
    /\ UNCHANGED exceptDep
    /\ UNCHANGED <<dep_n_sources, dep_independent_layers,
                   dep_layer_assignments, dep_unidirectional,
                   dep_fit_only_uniques, dep_capture_X, dep_fit_sample,
                   dep_intensity_bounds, dep_bounds, dep_local, dep_fitted>>

\* _fit, lines 75-91, with the call of _fit_sample
DepFitSample ==
    /\ dep_pc = "layers"
    /\ dep_bounds' = FitBounds(dep_intensity_bounds, dep_unidirectional,
                               IF dep_fit_only_uniques
                               THEN UniqueRows(dep_capture_X)
                               ELSE dep_capture_X,
                               CaptureBorder)
    /\ dep_local' = FitArrays(dep_fit_sample, dep_capture_X, dep_n_sources,
                              dep_fit_only_uniques)
    /\ dep_pc' = IF dep_local'.error = "none" THEN "sampled" ELSE "done"
    /\ UNCHANGED exceptDep
    /\ UNCHANGED <<dep_n_sources, dep_independent_layers,
                   dep_layer_assignments, dep_unidirectional,
                   dep_fit_only_uniques, dep_capture_X, dep_fit_sample,
                   dep_intensity_bounds, dep_layers, dep_fitted>>

\* _fit, lines 94-96
DepStoreFitted ==
    /\ dep_pc = "sampled"
    /\ dep_fitted' = dep_local
    /\ dep_pc' = "done"
    /\ UNCHANGED exceptDep
    /\ UNCHANGED <<dep_n_sources, dep_independent_layers,
                   dep_layer_assignments, dep_unidirectional,
                   dep_fit_only_uniques, dep_capture_X, dep_fit_sample,
                   dep_intensity_bounds, dep_layers, dep_bounds, dep_local>>

DepNext == DepResolveLayers \/ DepFitSample \/ DepStoreFitted

SpecDep ==
    /\ DepInit
    /\ [][DepNext]_vars

\* C21: after _fit has resolved the layers, len(_layer_assignments_) equals
\* _independent_layers_: with neither option one layer per light source,
\* layer i = [i]; with only layer_assignments their number; with only
\* independent_layers = L, L layers each listing every source; with both,
\* accepted only when len(layer_assignments) = independent_layers, and an
\* AssertionError otherwise.
C21_LayersResolved ==
    dep_pc # "fit" =>
        LET n == dep_n_sources
            L == dep_independent_layers
            given == dep_layer_assignments
            r == dep_layers
        IN  /\ r.error = "none" => Len(r.assignments) = r.count
            /\ (L = None /\ given = None) =>
                  /\ r.error = "none" /\ r.count = n
                  /\ \A i \in 1 .. n : r.assignments[i] = <<i>>
            /\ (L = None /\ given # None) =>
                  /\ r.error = "none" /\ r.count = Len(given[1])
                  /\ r.assignments = given[1]
            /\ (L # None /\ given = None) =>
                  /\ r.error = "none" /\ r.count = L[1]
                  /\ \A l \in 1 .. L[1] :
                        /\ Len(r.assignments[l]) = n
                        /\ \A i \in 1 .. n : r.assignments[l][i] = i
            /\ (L # None /\ given # None) =>
                  IF Len(given[1]) = L[1]
                  THEN /\ r.error = "none" /\ r.count = L[1]
                       /\ r.assignments = given[1]
                  ELSE r.error = "AssertionError"

C21_Witness ==
    /\ dep_pc = "layers" /\ dep_n_sources = 3
    /\ dep_independent_layers = Given(2) /\ dep_layer_assignments = None
    /\ dep_layers.assignments = << <<1, 2, 3>>, <<1, 2, 3>> >>

\* _fit_sample has been called
FitSampleCalled == dep_pc \in {"sampled", "done"} /\ dep_layers.error = "none"

\* C27: the bounds _fit_sample uses differ from intensity_bounds_ in at most
\* one of the two entries: for a unidirectional system the lower bound is
\* bg_ints_ when every target capture is >= capture_border_, else the upper
\* bound is bg_ints_ when every target capture is <= capture_border_, else
\* neither; for a system that is not unidirectional neither is replaced; and
\* intensity_bounds_ itself stays as it was.
C27_BoundsPinned ==
    FitSampleCalled =>
        LET above == \A i \in DOMAIN dep_capture_X :
                        \A j \in DOMAIN dep_capture_X[i] :
                           dep_capture_X[i][j] >= CaptureBorder
            below == \A i \in DOMAIN dep_capture_X :
                        \A j \in DOMAIN dep_capture_X[i] :
                           dep_capture_X[i][j] <= CaptureBorder
        IN  /\ dep_intensity_bounds = <<"lower", "upper">>
            /\ Len(dep_bounds) = 2
            /\ dep_bounds[1] = "lower" \/ dep_bounds[2] = "upper"
            /\ IF dep_unidirectional /\ above
               THEN dep_bounds = <<"bg_ints_", "upper">>
               ELSE IF dep_unidirectional /\ below
               THEN dep_bounds = <<"lower", "bg_ints_">>
               ELSE dep_bounds = <<"lower", "upper">>

C27_Witness ==
    /\ FitSampleCalled /\ dep_unidirectional
    /\ dep_capture_X = << <<1, 1>>, <<1, 1>> >>
    /\ dep_bounds = <<"bg_ints_", "upper">>
    /\ dep_intensity_bounds = <<"lower", "upper">>

\* _fit has run to its end or to an error, past the layers
FitEnded == dep_pc = "done" /\ dep_layers.error = "none"

\* C28: _fit with fit_only_uniques=True leaves the fitted state in the shape
\* it has with fit_only_uniques=False: fitted_intensities_ and
\* pixel_strength_ have one row per input sample, the row of sample i being
\* the result for the distinct capture row equal to sample i, and
\* layer_intensities_ keeps one row per light source.
C28_UniquesBroadcast ==
    (FitEnded /\ dep_fit_only_uniques) =>
        /\ dep_local.error = "none"
        /\ dep_fitted.fitted_intensities = dep_capture_X
        /\ dep_fitted.pixel_strength = dep_capture_X
        /\ dep_fitted.layer_intensities = [s \in 1 .. dep_n_sources |-> s]

\* C28, what the code does. _fit_sample as written raises on line 158 and
\* nothing is stored. With a _fit_sample returning the documented arrays,
\* fit_only_uniques=False stores them as they are; with fit_only_uniques=True
\* fitted_intensities_ is broadcast to the samples, pixel_strength_ keeps one
\* row per distinct capture row, and layer_intensities_ is indexed with
\* xinverse: one row per sample, or IndexError when there are more distinct
\* capture rows than light sources.
C28_UniquesAsCoded ==
    FitEnded =>
        LET distinct == {dep_capture_X[i] : i \in DOMAIN dep_capture_X}
        IN  IF dep_fit_sample = "written"
            THEN dep_local.error = "raised" /\ dep_fitted = NotFitted
            ELSE IF ~dep_fit_only_uniques
            THEN /\ dep_fitted.fitted_intensities = dep_capture_X
                 /\ dep_fitted.pixel_strength = dep_capture_X
                 /\ dep_fitted.layer_intensities =
                       [s \in 1 .. dep_n_sources |-> s]
            ELSE IF Cardinality(distinct) > dep_n_sources
            THEN dep_local.error = "IndexError" /\ dep_fitted = NotFitted
            ELSE /\ dep_fitted.fitted_intensities = dep_capture_X
                 /\ Len(dep_fitted.pixel_strength) = Cardinality(distinct)
                 /\ Len(dep_fitted.layer_intensities) = Len(dep_capture_X)
                 /\ \A i \in DOMAIN dep_capture_X :
                       dep_capture_X[i] =
                          dep_fitted.pixel_strength[
                              dep_fitted.layer_intensities[i]]

C28_Witness ==
    /\ FitEnded /\ dep_fit_only_uniques /\ dep_fit_sample = "written"
    /\ dep_capture_X = << <<1, 2>>, <<0, 1>>, <<1, 2>> >>
    /\ dep_local.error = "raised" /\ dep_fitted = NotFitted

\* the same fit with a _fit_sample returning the documented arrays
C28_WitnessDocumented ==
    /\ FitEnded /\ dep_fit_only_uniques /\ dep_fit_sample = "documented"
    /\ dep_n_sources = 3
    /\ dep_capture_X = << <<1, 2>>, <<0, 1>>, <<1, 2>> >>
    /\ dep_fitted.fitted_intensities = dep_capture_X
    /\ dep_fitted.pixel_strength = << <<0, 1>>, <<1, 2>> >>
    /\ dep_fitted.layer_intensities = <<2, 1, 2>>

(***************************************************************************)
(*   create_measured_spectrum, create_measured_spectra,                    *)
(*   get_led_spectra_container                                             *)
(*                                                                         *)
(* A spectrum array is a sequence of rows, one per wavelength, each row    *)
(* holding one count per output level. np.linspace(a, b, 100) is the       *)
(* record of its arguments and of the function its steps were passed      *)
(* through, "nothing" when they were not transformed.                      *)
(***************************************************************************)
\* spectrum.magnitude.sum(0): the total over the wavelengths, per output
Intensities(spectrum_array) ==
    [c \in DOMAIN spectrum_array[1] |->
        SumSeq([r \in DOMAIN spectrum_array |-> spectrum_array[r][c]],
               Len(spectrum_array))]

\* spectrum.labels.start and spectrum.labels.end, of Domain(output)
LabelsStart(output) == output[1]
LabelsEnd(output) == output[Len(output)]

\* lines 112-123: zero_intensity_bound and max_intensity_bound as handed on
OrientBounds(spectrum_array, output, zero, max, assume) ==
    LET intensities == Intensities(spectrum_array)
    IN  IF assume
        THEN IF intensities[1] > intensities[Len(intensities)]
             THEN <<IF zero # None THEN Given(LabelsEnd(output)) ELSE zero,
                    IF max # None THEN Given(LabelsStart(output)) ELSE max>>
             ELSE <<IF zero # None THEN Given(LabelsStart(output)) ELSE zero,
                    IF max # None THEN Given(LabelsEnd(output)) ELSE max>>
        ELSE <<zero, max>>

\* create_measured_spectrum: the bounds handed to MeasuredSpectrum through
\* convert_measurement (lines 127-137)
CreateMeasuredSpectrum(spectrum_array, output, zero, max, assume) ==
    OrientBounds(spectrum_array, output, zero, max, assume)

\* create_measured_spectra, lines 156-167: one create_measured_spectrum per
\* pair, called without bounds
CreateMeasuredSpectra(spectrum_arrays, output_arrays, assume) ==
    [i \in DOMAIN spectrum_arrays |->
        CreateMeasuredSpectrum(spectrum_arrays[i], output_arrays[i],
                               None, None, assume)]

\* np.linspace(*bounds, 100)
Linspace(bounds) ==
    [through |-> "nothing", start |-> bounds[1], stop |-> bounds[2],
     num |-> 100]
\* transform_func(steps)
Transformed(transform_func, steps) == [steps EXCEPT !.through = transform_func]

\* lines 216-221: the output labels of one LED
LedOutput(intensity_bounds, output_bounds, transform_func) ==
    IF output_bounds = None THEN Linspace(intensity_bounds)
    ELSE IF transform_func # None
    THEN Transformed(Value(transform_func), Linspace(intensity_bounds))
    ELSE Linspace(Value(output_bounds))

\* get_led_spectra_container, lines 212-243: the labels of every LED
GetLedSpectraContainer(n_leds, intensity_bounds, output_bounds, transform_func) ==
    [led \in 1 .. n_leds |->
        LedOutput(intensity_bounds, output_bounds, transform_func)]

SpectrumArrays ==
    { << <<0, 1>>, <<1, 2>> >>, << <<2, 1>>, <<1, 0>> >>,
      << <<1, 0>>, <<0, 1>> >>, << <<0, 2, 1>> >>, << <<3, 0, 1>> >> }
OutputArrays == {<<0, 5>>, <<1, 3>>, <<0, 2, 4>>}
BoundsGiven == {None, Given(0), Given(7)}
IntensityBounds == {<<0, 100>>, <<1, 5>>}
OutputBoundsGiven == {None, Given(<<0, 5>>), Given(<<0, 100>>)}
TransformFuncs == {None, Given("log"), Given("square")}

MeasInit ==
    /\ IdleExceptMeas
    /\ meas_pc = "call"
    /\ meas_result = <<>>
    /\ \/ \E a \in SpectrumArrays, o \in OutputArrays,
             z \in BoundsGiven, m \in BoundsGiven, assume \in BOOLEAN :
             /\ Len(a[1]) = Len(o)
             /\ meas_call = [op |-> "create_measured_spectrum",
                             spectrum_array |-> a, output |-> o,
                             zero_intensity_bound |-> z,
                             max_intensity_bound |-> m,
                             assume_contains_output_bounds |-> assume]
       \/ \E n \in 1 .. MaxLeds, assume \in BOOLEAN :
          \E as \in [1 .. n -> SpectrumArrays], os \in [1 .. n -> OutputArrays] :
             /\ \A i \in 1 .. n : Len(as[i][1]) = Len(os[i])
             /\ meas_call = [op |-> "create_measured_spectra",
                             spectrum_arrays |-> as, output_arrays |-> os,
                             assume_contains_output_bounds |-> assume]
       \/ \E n \in 1 .. MaxLeds, ib \in IntensityBounds,
             ob \in OutputBoundsGiven, tf \in TransformFuncs :
             meas_call = [op |-> "get_led_spectra_container", n_leds |-> n,
                          intensity_bounds |-> ib, output_bounds |-> ob,
                          transform_func |-> tf]

\* create_measured_spectrum(...)
MeasCreateSpectrum ==
    /\ meas_pc = "call" /\ meas_call.op = "create_measured_spectrum"
    /\ meas_result' = CreateMeasuredSpectrum(
                          meas_call.spectrum_array, meas_call.output,
                          meas_call.zero_intensity_bound,
                          meas_call.max_intensity_bound,
                          meas_call.assume_contains_output_bounds)
    /\ meas_pc' = "done"
    /\ UNCHANGED exceptMeas
    /\ UNCHANGED meas_call

\* create_measured_spectra(...)
MeasCreateSpectra ==
    /\ meas_pc = "call" /\ meas_call.op = "create_measured_spectra"
    /\ meas_result' = CreateMeasuredSpectra(
                          meas_call.spectrum_arrays, meas_call.output_arrays,
                          meas_call.assume_contains_output_bounds)
    /\ meas_pc' = "done"
    /\ UNCHANGED exceptMeas
    /\ UNCHANGED meas_call

\* get_led_spectra_container(...)
MeasGetLedSpectraContainer ==
    /\ meas_pc = "call" /\ meas_call.op = "get_led_spectra_container"
    /\ meas_result' = GetLedSpectraContainer(
                          meas_call.n_leds, meas_call.intensity_bounds,
                          meas_call.output_bounds, meas_call.transform_func)
    /\ meas_pc' = "done"
    /\ UNCHANGED exceptMeas
    /\ UNCHANGED meas_call

MeasNext ==
    MeasCreateSpectrum \/ MeasCreateSpectra \/ MeasGetLedSpectraContainer

SpecMeas ==
    /\ MeasInit
    /\ [][MeasNext]_vars

\* total intensity rises, or falls, from the first to the last output level
Rises(spectrum_array) ==
    Intensities(spectrum_array)[1]
        < Intensities(spectrum_array)[Len(spectrum_array[1])]
Falls(spectrum_array) ==
    Intensities(spectrum_array)[1]
        > Intensities(spectrum_array)[Len(spectrum_array[1])]

\* the bounds a claim expects for one spectrum
Oriented(bounds, spectrum_array, output) ==
    /\ Rises(spectrum_array) =>
          bounds = <<Given(LabelsStart(output)), Given(LabelsEnd(output))>>
    /\ Falls(spectrum_array) =>
          bounds = <<Given(LabelsEnd(output)), Given(LabelsStart(output))>>

\* C22: with assume_contains_output_bounds=True the MeasuredSpectrum gets
\* zero_intensity_bound = start and max_intensity_bound = end of the output
\* domain when total intensity rises from the first to the last output
\* level, and the reverse when it falls, in every call, also when the caller
\* passed no bounds, as create_measured_spectra does.
C22_BoundsOriented ==
    (meas_pc = "done" /\ meas_call.op \in {"create_measured_spectrum",
                                           "create_measured_spectra"}) =>
        (meas_call.assume_contains_output_bounds =>
            IF meas_call.op = "create_measured_spectrum"
            THEN Oriented(meas_result, meas_call.spectrum_array,
                          meas_call.output)
            ELSE \A i \in DOMAIN meas_result :
                    Oriented(meas_result[i], meas_call.spectrum_arrays[i],
                             meas_call.output_arrays[i]))

\* C22, what the code does: a bound is oriented only when the caller passed
\* one; a bound left at None is handed on as None, so create_measured_spectra
\* never hands bounds to its spectra.
C22_GivenBoundsOriented ==
    meas_pc = "done" =>
        /\ meas_call.op = "create_measured_spectra" =>
              \A i \in DOMAIN meas_result : meas_result[i] = <<None, None>>
        /\ (meas_call.op = "create_measured_spectrum"
            /\ meas_call.assume_contains_output_bounds) =>
              LET a == meas_call.spectrum_array
                  o == meas_call.output
                  lo == IF Falls(a) THEN LabelsEnd(o) ELSE LabelsStart(o)
                  hi == IF Falls(a) THEN LabelsStart(o) ELSE LabelsEnd(o)
              IN  /\ meas_result[1] =
                        IF meas_call.zero_intensity_bound = None THEN None
                        ELSE Given(lo)
                  /\ meas_result[2] =
                        IF meas_call.max_intensity_bound = None THEN None
                        ELSE Given(hi)

C22_Witness ==
    /\ meas_pc = "done" /\ meas_call.op = "create_measured_spectra"
    /\ meas_call.assume_contains_output_bounds
    /\ meas_call.spectrum_arrays = << << <<2, 1>>, <<1, 0>> >> >>
    /\ meas_call.output_arrays = << <<0, 5>> >>
    /\ meas_result = << <<None, None>> >>

\* C23: the output labels of every LED are the 100 intensity steps passed
\* through transform_func whenever transform_func is given, with or without
\* output_bounds; else 100 linear steps over output_bounds when they are
\* given; else the 100 linear intensity steps.
C23_OutputLabels ==
    (meas_pc = "done" /\ meas_call.op = "get_led_spectra_container") =>
        /\ Len(meas_result) = meas_call.n_leds
        /\ \A led \in DOMAIN meas_result :
              meas_result[led] =
                 IF meas_call.transform_func # None
                 THEN [through |-> meas_call.transform_func[1],
                       start |-> meas_call.intensity_bounds[1],
                       stop |-> meas_call.intensity_bounds[2],
                       num |-> 100]
                 ELSE IF meas_call.output_bounds # None
                 THEN [through |-> "nothing",
                       start |-> meas_call.output_bounds[1][1],
                       stop |-> meas_call.output_bounds[1][2], num |-> 100]
                 ELSE [through |-> "nothing",
                       start |-> meas_call.intensity_bounds[1],
                       stop |-> meas_call.intensity_bounds[2], num |-> 100]

\* C23, what the code does: transform_func is applied only when output_bounds
\* are given as well; without output_bounds the labels are the linear
\* intensity steps whether or not a transform_func is given.
C23_TransformNeedsOutputBounds ==
    (meas_pc = "done" /\ meas_call.op = "get_led_spectra_container") =>
        /\ Len(meas_result) = meas_call.n_leds
        /\ \A led \in DOMAIN meas_result :
              meas_result[led] =
                 IF meas_call.output_bounds = None
                 THEN [through |-> "nothing",
                       start |-> meas_call.intensity_bounds[1],
                       stop |-> meas_call.intensity_bounds[2], num |-> 100]
                 ELSE IF meas_call.transform_func # None
                 THEN [through |-> meas_call.transform_func[1],
                       start |-> meas_call.intensity_bounds[1],
                       stop |-> meas_call.intensity_bounds[2],
                       num |-> 100]
                 ELSE [through |-> "nothing",
                       start |-> meas_call.output_bounds[1][1],
                       stop |-> meas_call.output_bounds[1][2], num |-> 100]

C23_Witness ==
    /\ meas_pc = "done" /\ meas_call.op = "get_led_spectra_container"
    /\ meas_call.n_leds = 2
    /\ meas_call.transform_func = Given("log")
    /\ meas_call.output_bounds = None
    /\ meas_call.intensity_bounds = <<0, 100>>
    /\ meas_result[2] =
          [through |-> "nothing", start |-> 0, stop |-> 100, num |-> 100]

(***************************************************************************)
(*          get_label_formatted and SignalPlottingMixin.plot               *)
(*                                                                         *)
(* A string is a sequence of pieces: the characters of the label and, once *)
(* inserted, the replacement texts, none of which a later replace() can    *)
(* match. A palette colour is the pair of the colour map and its position. *)
(***************************************************************************)
Matches(s, i, old) ==
    /\ i + Len(old) - 1 <= Len(s)
    /\ \A k \in DOMAIN old : s[i + k - 1] = old[k]

\* str.replace(old, new) and str.replace(old, new, 1) from position i on:
\* left to right, without overlap
RECURSIVE ReplaceFrom(_, _, _, _, _)
ReplaceFrom(s, i, old, new, first_only) ==
    IF i > Len(s) THEN <<>>
    ELSE IF Matches(s, i, old)
    THEN new \o (IF first_only THEN SubSeq(s, i + Len(old), Len(s))
                 ELSE ReplaceFrom(s, i + Len(old), old, new, first_only))
    ELSE <<s[i]>> \o ReplaceFrom(s, i + 1, old, new, first_only)
Replace(s, old, new) == ReplaceFrom(s, 1, old, new, FALSE)
\* a faulty variant of ReplaceFirst: every occurrence is replaced
ReplaceEvery(s, old, new) == ReplaceFrom(s, 1, old, new, FALSE)
ReplaceFirst(s, old, new) == ReplaceFrom(s, 1, old, new, TRUE)

Contains(s, piece) == \E i \in DOMAIN s : s[i] = piece

\* lines 11-21: brackets and underscores dropped, powers and products
\* rewritten
CleanLabel(label) ==
    Replace(
        Replace(
            Replace(
                Replace(Replace(label, <<"[">>, <<>>), <<"]">>, <<>>),
                <<" ", "*", "*", " ">>, <<"^">>),
            <<"*">>, <<"\\cdot">>),
        <<"_">>, <<>>)

\* get_label_formatted(label), lines 9-27
GetLabelFormatted(label) ==
    LET cleaned == CleanLabel(label)
    IN  IF Contains(cleaned, "/")
        THEN Replace(<<"\\frac{">> \o ReplaceFirst(cleaned, <<"/">>, <<"}{">>)
                     \o <<"}">>,
                     <<"/">>, <<"\\cdot">>)
        ELSE cleaned

\* sns.color_palette(cmap, n)
ColorPalette(cmap, n) == [i \in 1 .. n |-> <<cmap, i>>]

\* SignalPlottingMixin._get_cls_vars, lines 54-69: cmap and colors
GetClsVars(cls_cmap, cls_colors, cmap, colors, color, ndim, other_len) ==
    LET cmap1 == IF cmap = None THEN cls_cmap ELSE Value(cmap)
        colors1 == IF colors = None \/ color = None THEN cls_colors
                   ELSE colors
        colors2 == IF colors1 = None /\ color # None
                   THEN IF Value(color).is_str /\ ndim = 2
                        THEN Given([i \in 1 .. other_len |->
                                      Value(color).name])
                        ELSE Given(IF Value(color).is_str
                                   THEN <<Value(color).name>>
                                   ELSE Value(color).list)
                   ELSE colors1
    IN  [cmap |-> cmap1, colors |-> colors2]

\* SignalPlottingMixin.plot, lines 104-136: the colour of every line drawn,
\* and whether the palette of the colour map was taken
Plot(cls_cmap, cls_colors, cmap, colors, color, ndim, other_len) ==
    LET v == GetClsVars(cls_cmap, cls_colors, cmap, colors, color, ndim,
                        other_len)
    IN  IF ndim = 2
        THEN IF v.colors = None
             THEN [error |-> "none", palette |-> TRUE,
                   lines |-> ColorPalette(v.cmap, other_len)]
             ELSE IF Len(Value(v.colors)) # other_len
             THEN [error |-> "AssertionError", palette |-> FALSE,
                   lines |-> <<>>]
             ELSE [error |-> "none", palette |-> FALSE,
                   lines |-> Value(v.colors)]
        ELSE [error |-> "none", palette |-> FALSE,
              lines |-> IF v.colors = None THEN <<"black">>
                        ELSE <<Value(v.colors)>>]

LabelChars == {"a", "[", "]", " ", "*", "_", "/"}
Labels == UNION {[1 .. n -> LabelChars] : n \in 0 .. MaxLabelLen}
ColorLists == {<<"r">>, <<"r", "g">>, <<"g", "b", "r">>}
ColorsGiven == {None} \cup {Given(l) : l \in ColorLists}
\* color: a colour name or a list of colours
ColorName(name) == [is_str |-> TRUE, name |-> name, list |-> <<>>]
ColorList(list) == [is_str |-> FALSE, name |-> "", list |-> list]
ColorGiven ==
    {None, Given(ColorName("k"))}
    \cup {Given(ColorList(l)) : l \in ColorLists}

PlotInit ==
    /\ IdleExceptPlot
    /\ plot_pc = "call"
    /\ plot_result = [error |-> "none"]
    /\ \/ \E label \in Labels :
             plot_call = [op |-> "get_label_formatted", label |-> label]
       \/ \E cls \in ColorsGiven, cm \in {None, Given("viridis")},
             cs \in ColorsGiven, c \in ColorGiven, nd \in 1 .. 2,
             n \in 1 .. 3 :
             plot_call = [op |-> "plot", cls_colors |-> cls, cmap |-> cm,
                          colors |-> cs, color |-> c, ndim |-> nd,
                          other_len |-> n]

\* get_label_formatted(label)
PlotGetLabelFormatted ==
    /\ plot_pc = "call" /\ plot_call.op = "get_label_formatted"
    /\ plot_result' = [error |-> "none",
                       label |-> GetLabelFormatted(plot_call.label)]
    /\ plot_pc' = "done"
    /\ UNCHANGED exceptPlot
    /\ UNCHANGED plot_call

\* SignalPlottingMixin.plot(cmap, colors, color)
PlotPlot ==
    /\ plot_pc = "call" /\ plot_call.op = "plot"
    /\ plot_result' = Plot("tab10", plot_call.cls_colors, plot_call.cmap,
                           plot_call.colors, plot_call.color, plot_call.ndim,
                           plot_call.other_len)
    /\ plot_pc' = "done"
    /\ UNCHANGED exceptPlot
    /\ UNCHANGED plot_call

PlotNext == PlotGetLabelFormatted \/ PlotPlot

SpecPlot ==
    /\ PlotInit
    /\ [][PlotNext]_vars

\* plot was called on a 2D signal with, or without, colors and color
Plotted2D(with_colors, with_color) ==
    /\ plot_pc = "done" /\ plot_call.op = "plot" /\ plot_call.ndim = 2
    /\ (plot_call.colors # None) = with_colors
    /\ (plot_call.color # None) = with_color

\* C24: plot on a 2D signal with an explicit colors list and color unset
\* draws line i in colors[i]; the palette of the colour map is used only
\* when neither colors nor color is supplied and the class presets no
\* colors.
C24_ExplicitColors ==
    /\ (Plotted2D(TRUE, FALSE)
        /\ Len(plot_call.colors[1]) = plot_call.other_len) =>
          /\ plot_result.error = "none" /\ ~plot_result.palette
          /\ plot_result.lines = plot_call.colors[1]
    /\ (plot_pc = "done" /\ plot_call.op = "plot" /\ plot_call.ndim = 2
        /\ plot_result.palette) =>
          /\ plot_call.colors = None /\ plot_call.color = None
          /\ plot_call.cls_colors = None

\* C24, what the code does: colors is kept only when color is given too.
\* With color unset the colors argument is replaced by the class preset,
\* and without a preset the palette is used.
C24_ColorsNeedColor ==
    /\ Plotted2D(TRUE, FALSE) =>
          IF plot_call.cls_colors = None
          THEN /\ plot_result.palette
               /\ plot_result.lines =
                     [i \in 1 .. plot_call.other_len |->
                         <<IF plot_call.cmap = None THEN "tab10"
                           ELSE plot_call.cmap[1], i>>]
          ELSE IF Len(plot_call.cls_colors[1]) = plot_call.other_len
          THEN plot_result.lines = plot_call.cls_colors[1]
          ELSE plot_result.error = "AssertionError"
    /\ Plotted2D(TRUE, TRUE) =>
          IF Len(plot_call.colors[1]) = plot_call.other_len
          THEN plot_result.lines = plot_call.colors[1]
          ELSE plot_result.error = "AssertionError"

C24_Witness ==
    /\ Plotted2D(TRUE, FALSE)
    /\ plot_call.colors = Given(<<"r", "g">>) /\ plot_call.other_len = 2
    /\ plot_call.cls_colors = None /\ plot_call.cmap = None
    /\ plot_result.palette
    /\ plot_result.lines = << <<"tab10", 1>>, <<"tab10", 2>> >>

\* the text of a label before its first "/", or all of it
RECURSIVE BeforeSlash(_, _)
BeforeSlash(label, i) ==
    IF i > Len(label) \/ label[i] = "/" THEN <<>>
    ELSE <<label[i]>> \o BeforeSlash(label, i + 1)

Count(s, piece) == Cardinality({i \in DOMAIN s : s[i] = piece})

\* C25: the output of get_label_formatted holds no "/" and no "*"; when the
\* input holds a "/", the output is one stacked fraction, \frac{..}{..},
\* whose numerator is the text before the first "/".
C25_NoSlashNoStar ==
    (plot_pc = "done" /\ plot_call.op = "get_label_formatted") =>
        LET out == plot_result.label
            numerator == CleanLabel(BeforeSlash(plot_call.label, 1))
        IN  /\ ~Contains(out, "/") /\ ~Contains(out, "*")
            /\ Contains(plot_call.label, "/") =>
                  /\ out[1] = "\\frac{" /\ out[Len(out)] = "}"
                  /\ Count(out, "\\frac{") = 1 /\ Count(out, "}{") = 1
                  /\ Count(out, "}") = 1
                  /\ SubSeq(out, 2, Len(numerator) + 1) = numerator
                  /\ out[Len(numerator) + 2] = "}{"
            /\ ~Contains(plot_call.label, "/") =>
                  /\ ~Contains(out, "\\frac{") /\ ~Contains(out, "}{")

C25_Witness ==
    /\ plot_pc = "done" /\ plot_call.op = "get_label_formatted"
    /\ plot_call.label = <<"a", "/", "*", "/">>
    /\ plot_result.label = <<"\\frac{", "a", "}{", "\\cdot", "\\cdot", "}">>

(***************************************************************************)
(* Further claims about lsq_nonlinear.                                     *)
(***************************************************************************)
\* the number of the first b logged batches whose last solve failed
RECURSIVE FailedBatches(_)
FailedBatches(b) ==
    IF b = 0 THEN 0
    ELSE FailedBatches(b - 1) + (IF batch_log[b].status <= 0 THEN 1 ELSE 0)

\* C26, per batch: a pass of the loop raises count_failure by one when the
\* status of its last solve is <= 0 and leaves it alone otherwise; nothing
\* else changes it.
C26_CountPerBatch ==
    IF Len(batch_log') = Len(batch_log) + 1
    THEN count_failure' = count_failure
            + (IF batch_log'[Len(batch_log')].status <= 0 THEN 1 ELSE 0)
    ELSE count_failure' = count_failure \/ lsq_pc = "start"

\* C26, in total: count_failure is the number of batches so far whose last
\* solve reported status <= 0, between 0 and the number of batches.
C26_CountTotal ==
    lsq_pc \in {"loop", "done"} /\ X # <<>> =>
        /\ count_failure = FailedBatches(Len(batch_log))
        /\ 0 <= count_failure /\ count_failure <= Len(batch_log)
        /\ Len(batch_log) <= NBatches

\* C26: the failure count of lsq_nonlinear grows by at most one per batch,
\* by exactly one when the last solve of the batch (the linear solve where
\* its result is taken for the whole batch, the nonlinear refinement
\* otherwise) reported status <= 0, and ends as the number of such batches.
C26_FailureCount == [][C26_CountPerBatch]_vars /\ [](C26_CountTotal)

C26_Witness ==
    /\ LsqLoopEnded /\ nonlin /\ Len(batch_log) = 3 /\ count_failure = 2
    /\ batch_log[1] = [branch |-> "all_in_gamut", status |-> 0]
    /\ batch_log[2].branch \in {"mixed", "none_in_gamut"}
    /\ batch_log[2].status = 1
    /\ batch_log[3].status = -1

(***************************************************************************)
(* Further claims about StepStimulus and RandomSwitchStimulus.             *)
(***************************************************************************)
\* C29: in the event table of StepStimulus each event's delay is
\* start_delay plus the sum of (duration + pause) of all events before it,
\* so that consecutive events never overlap: delay[i+1] >= delay[i] +
\* duration[i] + pause[i].
C29_DelaysSumBefore ==
    step_pc # "new" =>
        /\ \A i \in DOMAIN created_events :
              created_events[i].delay =
                 start_delay + CumSum(created_events, i - 1)
        /\ \A i \in 1 .. (Len(created_events) - 1) :
              created_events[i + 1].delay >=
                 created_events[i].delay + created_events[i].dur
                 + created_events[i].pause

\* C29, what the code does: the cumulative sum includes the event itself and
\* is shifted by the first event's duration + pause, so an event is delayed
\* by the durations and pauses of the events from the second up to itself,
\* and the gap to its predecessor is its own duration + pause.
C29_DelaysSumFromSecond ==
    step_pc # "new" =>
        /\ \A i \in DOMAIN created_events :
              created_events[i].delay =
                 start_delay + CumSum(created_events, i)
                 - (created_events[1].dur + created_events[1].pause)
        /\ \A i \in 1 .. (Len(created_events) - 1) :
              created_events[i + 1].delay =
                 created_events[i].delay + created_events[i + 1].dur
                 + created_events[i + 1].pause

C29_Witness ==
    /\ step_pc # "new" /\ Len(created_events) >= 2
    /\ created_events[1].dur = 3 /\ created_events[2].dur = 1
    /\ created_events[2].delay <
          created_events[1].delay + created_events[1].dur

\* C30: for every rate and every event table with positive durations,
\* _create_signal completes without error: every event covers at least one
\* frame, gets a corrected delay and is written into the signal, also an
\* event shorter than a frame period and an event starting after the last
\* frame boundary.
C30_SignalCompletes ==
    step_pc \in {"signal", "raised"} =>
        /\ step_error = "none" /\ step_pc = "signal"
        /\ \A r \in DOMAIN created_events :
              \E f \in 0 .. (Len(signal) - 1) : Covers(r, f)

\* C30, what the code does: _create_signal completes exactly when every
\* event's interval [delay, delay + duration) holds a frame time below
\* total_frames; otherwise times[tbool][0] raises IndexError on the first
\* event that selects no frame.
C30_RaisesOnEmptyFrames ==
    step_pc \in {"signal", "raised"} =>
        LET total == TotalFrames(created_events, end_dur, period)
            empty == {r \in DOMAIN created_events :
                         ~\E f \in 0 .. (total - 1) : Covers(r, f)}
        IN  IF empty = {}
            THEN step_pc = "signal" /\ step_error = "none"
            ELSE step_pc = "raised" /\ step_error = "IndexError"

C30_Witness ==
    /\ step_pc = "raised" /\ step_error = "IndexError"
    /\ period = 2 /\ Len(created_events) = 1
    /\ created_events[1].delay = 1 /\ created_events[1].dur = 1

\* the same in RandomSwitchStimulus._create_signal
C30_WitnessRandomSwitch ==
    /\ rs_pc = "raised" /\ rs_error = "IndexError" /\ rs_period = 2

====
